---------------------------- MODULE Spec2Model ----------------------------
(***************************************************************************)
(* gpt-home: the message-to-action pipeline.                               *)
(*                                                                         *)
(*   internal/device   Validator (validator.go) and Manager (manager.go),  *)
(*                     both in src/unnamed/part_001                        *)
(*   internal/api      Handler.HandleChat, src/unnamed/part_006            *)
(*   internal/llm      Service (Ollama variant), internal/llm/service.go   *)
(*   internal/conversation  Manager, src/unnamed/part_000                  *)
(*                                                                         *)
(* Numbers.  A Go float64 or int parameter is a record [t, n]: t is the    *)
(* dynamic type held by the `any`, n the value counted in halves, so       *)
(* 254.5 is n = 509 and the int 128 is n = 256.  Halves are enough to tell *)
(* int(v) from v and a closed range from an open one.  NaN and the         *)
(* infinities are left out: no JSON body and no keyword rule of the        *)
(* program produces them.                                                  *)
(*                                                                         *)
(* Text.  An error or warning text is the sequence of its words, a chat    *)
(* message or a model reply is the sequence of its characters.             *)
(***************************************************************************)
EXTENDS Integers, Sequences, FiniteSets, TLC

VARIABLES
    vAction,        \* Validator: the action handed to ValidateAction
    vResult,        \* Validator: the ValidationResult it returned
    vDone,          \* Validator: ValidateAction has returned
    devices,        \* Manager.devices: the cache, device id -> type ("" = no entry)
    op,             \* the last public operation called, with its arguments
    ret,            \* the error that operation returned (NoError = nil)
    pc,             \* "idle", or "returned": op has run and its caller holds ret
    trace,          \* the steps that operation performed, in order
    isConnected,    \* llm.Service.isConnected
    conversations,  \* conversation.Manager.conversations: id -> conversation
    now,            \* the clock time.Now() reads
    chat,           \* HandleChat: the request it was given and the response it wrote
    deviceCache,    \* Manager.devices with whole devices: device id -> models.Device
    lastUpdate,     \* Manager.lastUpdate
    devicesMutex,   \* Manager.devicesMutex, a sync.RWMutex
    frames,         \* per goroutine: the Manager call it is in, its position and locals
    call,           \* the conversation.Manager call made last: arguments and results
    storeMutex,     \* conversation.Manager.mutex, a sync.RWMutex
    workers,        \* per goroutine: the conversation.Manager call it is in, and its locals
    durable,        \* the SQLite file of database.DB: its two tables
    isLoaded,       \* LocalBackend.isLoaded
    backendMutex,   \* LocalBackend.mutex, a sync.RWMutex
    serviceMutex,   \* llm.Service.mutex of the Service over an LLMBackend
    callers,        \* per goroutine: the llm.Service call it is in, and its locals
    turn            \* the text last interpreted, and what each interpreter made of it

validatorVars == <<vAction, vResult, vDone>>
callVars == <<op, ret, pc, trace>>
chatVars == <<isConnected, conversations, now, chat>>
registryVars == <<deviceCache, lastUpdate, devicesMutex, frames>>
storeVars == <<call, storeMutex, workers, durable>>
llmVars == <<isLoaded, backendMutex, serviceMutex, callers, turn>>

vars == <<vAction, vResult, vDone, devices, op, ret, pc, trace,
          isConnected, conversations, now, chat,
          deviceCache, lastUpdate, devicesMutex, frames, call,
          storeMutex, workers, durable,
          isLoaded, backendMutex, serviceMutex, callers, turn>>

-----------------------------------------------------------------------------
(* Bounds of the model *)

\* How far around each range endpoint the probed parameter values go, in halves.
ProbeRadius == 2

-----------------------------------------------------------------------------
(* pkg/models/types.go: DeviceAction and its heterogeneous parameter map *)

ParamKeys == {"brightness", "temperature", "color_temp", "humidity"}

Absent == [t |-> "absent", n |-> 0]
Float64(n) == [t |-> "float64", n |-> n]
GoInt(k) == [t |-> "int", n |-> 2 * k]
GoString == [t |-> "string", n |-> 0]

\* float64(v) for an int v: the same number
ToFloat64(v) == v.n

\* int(f): Go truncates toward zero
Trunc(n) == IF n >= 0 THEN n \div 2 ELSE -((-n) \div 2)

EmptyMap == [k \in ParamKeys |-> Absent]

\* map[string]any{key: value}
MapOf(key, value) == [k \in ParamKeys |-> IF k = key THEN value ELSE Absent]

\* *models.DeviceAction: nil, or an action whose Parameters map may itself be nil
NilAction == [nil |-> TRUE, Action |-> "", ParamsNil |-> TRUE, Parameters |-> EmptyMap]

DeviceAction(name, paramsNil, params) ==
    [nil |-> FALSE, Action |-> name, ParamsNil |-> paramsNil, Parameters |-> params]

HasKey(action, key) == action.Parameters[key] # Absent

-----------------------------------------------------------------------------
(* internal/device/validator.go *)

MinBrightness == 0
MaxBrightness == 255
MinSafeTemp == 10
MaxSafeTemp == 40
MinComfortTemp == 16
MaxComfortTemp == 28
MinKelvin == 2700
MaxKelvin == 6500
MinHumidity == 0
MaxHumidity == 100

NoText == <<>>

ValidationResult(valid, error, warning, safeAction) ==
    [Valid |-> valid, Error |-> error, Warning |-> warning, SafeAction |-> safeAction]

Invalid(error) == ValidationResult(FALSE, error, NoText, NilAction)

\* the type switch `case float64: ... case int: ...` of every range validator
IsNumberMutant(v) == v.t \in {"float64", "int", "string"}
IsNumber(v) == v.t \in {"float64", "int"}

\* fmt's %.1f and %.0f of a value counted in halves (%.0f rounds half to even)
Format1f(n) ==
    LET a == IF n < 0 THEN -n ELSE n
    IN  (IF n < 0 THEN "-" ELSE "") \o ToString(a \div 2) \o
        (IF a % 2 = 0 THEN ".0" ELSE ".5")

Format0f(n) ==
    LET a == IF n < 0 THEN -n ELSE n
        q == a \div 2
        r == IF a % 2 = 0 THEN q ELSE IF q % 2 = 0 THEN q ELSE q + 1
    IN  (IF n < 0 THEN "-" ELSE "") \o ToString(r)

validateOnOff(action) ==
    ValidationResult(TRUE, NoText, NoText, [action EXCEPT !.ParamsNil = FALSE])

BrightnessNegative(n) == n < 2 * MinBrightness

BrightnessExceedsMutant(n) == n >= 2 * MaxBrightness
BrightnessExceeds(n) == n > 2 * MaxBrightness

\* the result returned for a brightness above 255 (lines 108-114)
RejectExceedingBrightnessMutant(action) ==
    ValidationResult(FALSE, <<"brightness", "cannot", "exceed", "255">>,
        <<"requested", "brightness", "exceeded", "255", ",", "clamped", "to", "255">>,
        DeviceAction(action.Action, FALSE, MapOf("brightness", GoInt(MaxBrightness))))
RejectExceedingBrightness(action) ==
    ValidationResult(FALSE, <<"brightness", "cannot", "exceed", "255">>,
        <<"requested", "brightness", "exceeded", "255", ",", "clamped", "to", "255">>,
        NilAction)

validateBrightness(action) ==
    IF action.ParamsNil
    THEN Invalid(<<"brightness", "action", "requires", "parameters">>)
    ELSE IF ~HasKey(action, "brightness")
    THEN Invalid(<<"brightness", "action", "requires", "'", "brightness", "'", "parameter">>)
    ELSE LET brightness == action.Parameters["brightness"] IN
    IF ~IsNumber(brightness)
    THEN Invalid(<<"brightness", "must", "be", "a", "number">>)
    ELSE LET brightness_value == ToFloat64(brightness) IN
    IF BrightnessNegative(brightness_value)
    THEN ValidationResult(FALSE, <<"brightness", "cannot", "be", "negative">>,
            <<"requested", "brightness", "was", "negative", ",", "clamped", "to", "0">>,
            NilAction)
    ELSE IF BrightnessExceeds(brightness_value)
    THEN RejectExceedingBrightness(action)
    ELSE ValidationResult(TRUE, NoText, NoText,
            DeviceAction(action.Action, FALSE,
                MapOf("brightness", GoInt(Trunc(brightness_value)))))

TemperatureUnsafeMutant(n) == n < 2 * MinSafeTemp \/ n >= 2 * MaxSafeTemp
TemperatureUnsafe(n) == n < 2 * MinSafeTemp \/ n > 2 * MaxSafeTemp

temperatureWarning(n) ==
    IF n < 2 * MinComfortTemp
    THEN <<"temperature", "is", "very", "cold", "-", "ensure", "this", "is", "intentional">>
    ELSE IF n > 2 * MaxComfortTemp
    THEN <<"temperature", "is", "very", "warm", "-", "ensure", "this", "is", "intentional">>
    ELSE NoText

validateTemperature(action) ==
    IF action.ParamsNil
    THEN Invalid(<<"temperature", "action", "requires", "parameters">>)
    ELSE IF ~HasKey(action, "temperature")
    THEN Invalid(<<"temperature", "action", "requires", "'", "temperature", "'", "parameter">>)
    ELSE LET temperature == action.Parameters["temperature"] IN
    IF ~IsNumber(temperature)
    THEN Invalid(<<"temperature", "must", "be", "a", "number">>)
    ELSE LET temp_value == ToFloat64(temperature) IN
    IF TemperatureUnsafe(temp_value)
    THEN ValidationResult(FALSE,
            <<"temperature", Format1f(temp_value) \o "°C", "is", "outside", "safe",
              "range", "(10-40°C)">>,
            <<"extremely", "high", "or", "low", "temperature", "requested">>,
            NilAction)
    ELSE ValidationResult(TRUE, NoText, temperatureWarning(temp_value),
            DeviceAction(action.Action, FALSE,
                MapOf("temperature", Float64(temp_value))))

KelvinOutOfRangeMutant(n) == n <= 2 * MinKelvin \/ n > 2 * MaxKelvin
KelvinOutOfRange(n) == n < 2 * MinKelvin \/ n > 2 * MaxKelvin

validateColorTemp(action) ==
    IF action.ParamsNil
    THEN Invalid(<<"color_temp", "action", "requires", "parameters">>)
    ELSE IF ~HasKey(action, "color_temp")
    THEN Invalid(<<"color_temp", "action", "requires", "'", "color_temp", "'", "parameter">>)
    ELSE LET colorTemp == action.Parameters["color_temp"] IN
    IF ~IsNumber(colorTemp)
    THEN Invalid(<<"color_temp", "must", "be", "a", "number", "in", "kelvin">>)
    ELSE LET kelvin_value == ToFloat64(colorTemp) IN
    IF KelvinOutOfRange(kelvin_value)
    THEN Invalid(<<"color", "temperature", Format0f(kelvin_value) \o "K", "is",
                   "outside", "typical", "range", "(2700-6500K)">>)
    ELSE ValidationResult(TRUE, NoText, NoText,
            DeviceAction(action.Action, FALSE,
                MapOf("color_temp", Float64(kelvin_value))))

HumidityOutOfRange(n) == n < 2 * MinHumidity \/ n > 2 * MaxHumidity

validateHumidity(action) ==
    IF action.ParamsNil
    THEN Invalid(<<"humidity", "action", "requires", "parameters">>)
    ELSE IF ~HasKey(action, "humidity")
    THEN Invalid(<<"humidity", "action", "requires", "'", "humidity", "'", "parameter">>)
    ELSE LET humidity == action.Parameters["humidity"] IN
    IF ~IsNumber(humidity)
    THEN Invalid(<<"humidity", "must", "be", "a", "number", "(0-100)">>)
    ELSE LET humidity_value == ToFloat64(humidity) IN
    IF HumidityOutOfRange(humidity_value)
    THEN Invalid(<<"humidity", "must", "be", "between", "0", "and", "100">>)
    ELSE ValidationResult(TRUE, NoText, NoText,
            DeviceAction(action.Action, FALSE,
                MapOf("humidity", Float64(humidity_value))))

validateCoverAction(action) ==
    IF action.Action # "open" /\ action.Action # "close"
    THEN Invalid(<<"cover", "action", "must", "be", "'", "open", "'", "or", "'", "close", "'">>)
    ELSE ValidationResult(TRUE, NoText, NoText, [action EXCEPT !.ParamsNil = FALSE])

ValidateAction(action) ==
    IF action.nil
    THEN Invalid(<<"action", "cannot", "be", "nil">>)
    ELSE CASE action.Action \in {"turn_on", "turn_off"} -> validateOnOff(action)
           [] action.Action = "set_brightness" -> validateBrightness(action)
           [] action.Action = "set_temperature" -> validateTemperature(action)
           [] action.Action = "set_color_temp" -> validateColorTemp(action)
           [] action.Action = "set_humidity" -> validateHumidity(action)
           [] action.Action \in {"open", "close"} -> validateCoverAction(action)
           [] OTHER -> Invalid(<<"unknown", "action", ":", action.Action>>)

-----------------------------------------------------------------------------
(* The actions and parameter values the operations are called with *)

\* the names ValidateAction dispatches on, the further names mapActionToService
\* knows, and two names neither knows
ValidatedNames ==
    {"turn_on", "turn_off", "set_brightness", "set_temperature", "set_color_temp",
     "set_humidity", "open", "close"}

MappedOnlyNames ==
    {"toggle", "set_color", "set_hvac_mode", "stop", "set_position", "set_speed",
     "play", "pause", "volume_set"}

ActionNames == ValidatedNames \cup MappedOnlyNames \cup {"unknown_action", ""}

\* the whole numbers each parameter is probed around: the endpoints of its ranges,
\* a value inside, and 300 (the brightness the tests reject)
ProbeCenters(key) ==
    CASE key = "brightness" -> {MinBrightness, 128, MaxBrightness, 300}
      [] key = "temperature" -> {MinSafeTemp, MinComfortTemp, 22, MaxComfortTemp, MaxSafeTemp}
      [] key = "color_temp" -> {MinKelvin, 4000, MaxKelvin}
      [] key = "humidity" -> {MinHumidity, 50, MaxHumidity}

ProbeHalves(key) ==
    {2 * c + d : c \in ProbeCenters(key), d \in (-ProbeRadius)..ProbeRadius}

\* what a parameter may hold: a float64 (every JSON number), an int (the keyword
\* rules and Go callers) or something that is no number
ProbeValues(key) ==
    {Float64(n) : n \in ProbeHalves(key)}
        \cup {GoInt(n \div 2) : n \in {h \in ProbeHalves(key) : h % 2 = 0}}
        \cup {GoString}

ParamMaps ==
    {EmptyMap} \cup UNION {{MapOf(key, v) : v \in ProbeValues(key)} : key \in ParamKeys}

ValidatorInputs ==
    {NilAction}
        \cup {DeviceAction(name, TRUE, EmptyMap) : name \in ActionNames}
        \cup {DeviceAction(name, FALSE, p) : name \in ActionNames, p \in ParamMaps}

NoResult == ValidationResult(FALSE, NoText, NoText, NilAction)

-----------------------------------------------------------------------------
(* internal/device/manager.go: state *)

DeviceTypes == {"light", "switch", "sensor", "climate", "cover", "fan", "media_player"}

\* the entities the gateway holds, one of each type: id -> type
HAEntities ==
    [id \in {"light.bedroom", "switch.porch", "sensor.temperature", "climate.main",
             "cover.garage", "fan.ceiling", "media_player.tv"} |->
        CASE id = "light.bedroom" -> "light"
          [] id = "switch.porch" -> "switch"
          [] id = "sensor.temperature" -> "sensor"
          [] id = "climate.main" -> "climate"
          [] id = "cover.garage" -> "cover"
          [] id = "fan.ceiling" -> "fan"
          [] id = "media_player.tv" -> "media_player"]

DeviceIds == DOMAIN HAEntities \cup {"nonexistent.device"}

NoDevice == ""

\* NewManager: an empty cache
NewManager == [id \in DeviceIds |-> NoDevice]

NoError == [msg |-> NoText, cause |-> NoText]
Errorf(msg) == [msg |-> msg, cause |-> NoText]
\* fmt.Errorf("...: %w", err)
Wrap(msg, err) == [msg |-> msg, cause |-> err.msg]

NoOp == [name |-> "", deviceID |-> "", action |-> NilAction]

-----------------------------------------------------------------------------
(* pkg/homeassistant: what a gateway call can answer *)

\* GetEntity(id): the device's type, or an error (no such entity, or no answer)
GetEntityOutcomes(id) ==
    (IF id \in DOMAIN HAEntities THEN {"ok"} ELSE {"entity not found"})
        \cup {"failed to make request"}

CallServiceOutcomes == {"ok", "failed to make request", "service call failed with status"}

GatewayError(outcome) == Errorf(<<outcome>>)

\* one step of an operation, as the trace records it
\* (answer: what the gateway answered, for the two gateway calls)
Step(name) ==
    [step |-> name, domain |-> "", service |-> "", entityID |-> "", data |-> EmptyMap,
     answer |-> ""]

GetEntityStep(id, answer) == [Step("GetEntity") EXCEPT !.entityID = id, !.answer = answer]

CallServiceStep(domain, service, id, data, answer) ==
    [step |-> "CallService", domain |-> domain, service |-> service,
     entityID |-> id, data |-> data, answer |-> answer]

-----------------------------------------------------------------------------
(* internal/device/manager.go: operations *)

\* GetDevice: the cached entry, or on a miss one point lookup merged into the cache
GetDevice(cache, deviceID, entityOutcome) ==
    IF cache[deviceID] # NoDevice
    THEN [device |-> cache[deviceID], err |-> NoError, cache |-> cache, steps |-> <<>>]
    ELSE IF entityOutcome # "ok"
    THEN [device |-> NoDevice,
          err |-> Errorf(<<"device", "not", "found", ":", deviceID>>),
          cache |-> cache, steps |-> <<GetEntityStep(deviceID, entityOutcome)>>]
    ELSE [device |-> HAEntities[deviceID], err |-> NoError,
          cache |-> [cache EXCEPT ![deviceID] = HAEntities[deviceID]],
          steps |-> <<GetEntityStep(deviceID, entityOutcome)>>]

\* the service a device type offers for an action name ("" = none)
ServiceFor(deviceType, name) ==
    CASE deviceType = "light" ->
            (CASE name = "turn_on" -> "turn_on"
               [] name = "turn_off" -> "turn_off"
               [] name = "toggle" -> "toggle"
               [] name = "set_brightness" -> "turn_on"
               [] name = "set_color" -> "turn_on"
               [] OTHER -> "")
      [] deviceType = "switch" ->
            (CASE name = "turn_on" -> "turn_on"
               [] name = "turn_off" -> "turn_off"
               [] name = "toggle" -> "toggle"
               [] OTHER -> "")
      [] deviceType = "climate" ->
            (CASE name = "set_temperature" -> "set_temperature"
               [] name = "set_hvac_mode" -> "set_hvac_mode"
               [] OTHER -> "")
      [] deviceType = "cover" ->
            (CASE name = "open" -> "open_cover"
               [] name = "close" -> "close_cover"
               [] name = "stop" -> "stop_cover"
               [] name = "set_position" -> "set_cover_position"
               [] OTHER -> "")
      [] deviceType = "fan" ->
            (CASE name = "turn_on" -> "turn_on"
               [] name = "turn_off" -> "turn_off"
               [] name = "toggle" -> "toggle"
               [] name = "set_speed" -> "set_percentage"
               [] OTHER -> "")
      [] deviceType = "media_player" ->
            (CASE name = "play" -> "media_play"
               [] name = "pause" -> "media_pause"
               [] name = "stop" -> "media_stop"
               [] name = "volume_set" -> "volume_set"
               [] OTHER -> "")
      [] OTHER -> ""

\* the domain is set by the outer switch alone; a sensor matches no case
DomainFor(deviceType) ==
    IF deviceType \in {"light", "switch", "climate", "cover", "fan", "media_player"}
    THEN deviceType
    ELSE ""

\* the parameters are copied; a mapping that names a key stores the same value
\* under the same key again
mapActionToServiceMutant(deviceType, action) ==
    [domain |-> DomainFor(deviceType),
     service |-> ServiceFor(deviceType, action.Action),
     serviceData |-> EmptyMap]
mapActionToService(deviceType, action) ==
    LET copied == action.Parameters
        renamed ==
            CASE deviceType = "light" /\ action.Action = "set_brightness"
                    /\ HasKey(action, "brightness") ->
                    [copied EXCEPT !["brightness"] = action.Parameters["brightness"]]
              [] deviceType = "climate" /\ action.Action = "set_temperature"
                    /\ HasKey(action, "temperature") ->
                    [copied EXCEPT !["temperature"] = action.Parameters["temperature"]]
              [] OTHER -> copied
    IN  [domain |-> DomainFor(deviceType),
         service |-> ServiceFor(deviceType, action.Action),
         serviceData |-> renamed]

\* `if domain == "" || service == ""`
NoServiceMutant(domain, service) == domain = "" /\ service = ""
NoService(domain, service) == domain = "" \/ service = ""

\* the call to the gateway and what becomes of its error: one attempt
InvokeGatewayMutant(domain, service, deviceID, serviceData, svcOutcome) ==
    IF svcOutcome = "ok"
    THEN [err |-> NoError, steps |-> <<CallServiceStep(domain, service, deviceID, serviceData, svcOutcome)>>]
    ELSE [err |-> Wrap(<<"failed", "to", "execute", "action">>, GatewayError(svcOutcome)),
          steps |-> <<CallServiceStep(domain, service, deviceID, serviceData, svcOutcome),
                      CallServiceStep(domain, service, deviceID, serviceData, svcOutcome)>>]
InvokeGateway(domain, service, deviceID, serviceData, svcOutcome) ==
    [err |-> IF svcOutcome = "ok"
             THEN NoError
             ELSE Wrap(<<"failed", "to", "execute", "action">>, GatewayError(svcOutcome)),
     steps |-> <<CallServiceStep(domain, service, deviceID, serviceData, svcOutcome)>>]

\* ExecuteActionOnDevice from the mapping on
Dispatch(deviceType, deviceID, safeAction, svcOutcome) ==
    LET m == mapActionToService(deviceType, safeAction) IN
    IF NoService(m.domain, m.service)
    THEN [err |-> Errorf(<<"unsupported", "action", safeAction.Action,
                           "for", "device", "type", deviceType>>),
          steps |-> <<Step("mapActionToService")>>]
    ELSE LET g == InvokeGateway(m.domain, m.service, deviceID, m.serviceData, svcOutcome)
         IN  [err |-> g.err, steps |-> <<Step("mapActionToService")>> \o g.steps]

\* ExecuteActionOnDevice from the validation on
ValidateAndDispatchMutant(deviceType, deviceID, action, svcOutcome) ==
    LET d == Dispatch(deviceType, deviceID, action, svcOutcome)
    IN  [err |-> d.err, steps |-> <<Step("ValidateAction")>> \o d.steps]
ValidateAndDispatch(deviceType, deviceID, action, svcOutcome) ==
    LET validationResult == ValidateAction(action) IN
    IF ~validationResult.Valid
    THEN [err |-> Errorf(<<"action", "validation", "failed", ":">> \o validationResult.Error),
          steps |-> <<Step("ValidateAction")>>]
    ELSE LET d == Dispatch(deviceType, deviceID, validationResult.SafeAction, svcOutcome)
         IN  [err |-> d.err, steps |-> <<Step("ValidateAction")>> \o d.steps]

ExecuteActionOnDeviceMutant(cache, deviceID, action, entityOutcome, svcOutcome) ==
    LET validationResult == ValidateAction(action) IN
    IF ~validationResult.Valid
    THEN [err |-> Errorf(<<"action", "validation", "failed", ":">> \o validationResult.Error),
          cache |-> cache, steps |-> <<Step("ValidateAction")>>]
    ELSE LET r == GetDevice(cache, deviceID, entityOutcome) IN
    IF r.err # NoError
    THEN [err |-> Errorf(<<"device", "not", "found", ":", deviceID>>),
          cache |-> r.cache, steps |-> <<Step("ValidateAction")>> \o r.steps]
    ELSE LET d == Dispatch(r.device, deviceID, validationResult.SafeAction, svcOutcome)
         IN  [err |-> d.err, cache |-> r.cache,
              steps |-> <<Step("ValidateAction")>> \o r.steps \o d.steps]
ExecuteActionOnDevice(cache, deviceID, action, entityOutcome, svcOutcome) ==
    LET r == GetDevice(cache, deviceID, entityOutcome) IN
    IF r.err # NoError
    THEN [err |-> Errorf(<<"device", "not", "found", ":", deviceID>>),
          cache |-> r.cache, steps |-> r.steps]
    ELSE LET v == ValidateAndDispatch(r.device, deviceID, action, svcOutcome)
         IN  [err |-> v.err, cache |-> r.cache, steps |-> r.steps \o v.steps]

\* ExecuteAction: no device is named, so nothing is done
ExecuteAction(action) ==
    Errorf(<<"action", "execution", "requires", "device", "context">>)

-----------------------------------------------------------------------------
(* Go strings, as sequences of characters *)

UpperLetters ==
    <<"A", "B", "C", "D", "E", "F", "G", "H", "I", "J", "K", "L", "M",
      "N", "O", "P", "Q", "R", "S", "T", "U", "V", "W", "X", "Y", "Z">>

LowerLetters ==
    <<"a", "b", "c", "d", "e", "f", "g", "h", "i", "j", "k", "l", "m",
      "n", "o", "p", "q", "r", "s", "t", "u", "v", "w", "x", "y", "z">>

LowerChar(c) ==
    IF \E i \in 1..26 : UpperLetters[i] = c
    THEN LowerLetters[CHOOSE i \in 1..26 : UpperLetters[i] = c]
    ELSE c

\* strings.ToLower
ToLower(s) == [i \in 1..Len(s) |-> LowerChar(s[i])]

IsSpace(c) == c \in {" ", "\t", "\n", "\r"}

\* strings.TrimSpace
TrimSpace(s) ==
    LET kept == {i \in 1..Len(s) : ~IsSpace(s[i])} IN
    IF kept = {}
    THEN <<>>
    ELSE SubSeq(s, CHOOSE i \in kept : \A j \in kept : i <= j,
                   CHOOSE i \in kept : \A j \in kept : i >= j)

\* strings.Contains
Contains(s, substr) ==
    \E i \in 1..(Len(s) - Len(substr) + 1) : SubSeq(s, i, i + Len(substr) - 1) = substr

\* the keywords parseCommand and extractActionsFromResponse look for
Kw ==
    [
     \* "turn on"
     turn_on |->
        <<"t", "u", "r", "n", " ", "o", "n">>,
     \* "turning on"
     turning_on |->
        <<"t", "u", "r", "n", "i", "n", "g", " ", "o", "n">>,
     \* "turn off"
     turn_off |->
        <<"t", "u", "r", "n", " ", "o", "f", "f">>,
     \* "turning off"
     turning_off |->
        <<"t", "u", "r", "n", "i", "n", "g", " ", "o", "f", "f">>,
     \* "dim"
     dim |->
        <<"d", "i", "m">>,
     \* "dimming"
     dimming |->
        <<"d", "i", "m", "m", "i", "n", "g">>,
     \* "light"
     light |->
        <<"l", "i", "g", "h", "t">>,
     \* "temperature"
     temperature |->
        <<"t", "e", "m", "p", "e", "r", "a", "t", "u", "r", "e">>,
     \* "thermostat"
     thermostat |->
        <<"t", "h", "e", "r", "m", "o", "s", "t", "a", "t">>,
     \* "set"
     set |->
        <<"s", "e", "t">>,
     \* "status"
     status |->
        <<"s", "t", "a", "t", "u", "s">>,
     \* "what"
     what |->
        <<"w", "h", "a", "t">>]

\* the replies of parseCommand
Reply ==
    [
     \* "I'll turn on the lights for you."
     LightsOn |->
        <<"I", "'", "l", "l", " ", "t", "u", "r", "n", " ", "o", "n", " ", "t", "h",
          "e", " ", "l", "i", "g", "h", "t", "s", " ", "f", "o", "r", " ", "y", "o",
          "u", ".">>,
     \* "I'll turn off the lights for you."
     LightsOff |->
        <<"I", "'", "l", "l", " ", "t", "u", "r", "n", " ", "o", "f", "f", " ", "t",
          "h", "e", " ", "l", "i", "g", "h", "t", "s", " ", "f", "o", "r", " ", "y",
          "o", "u", ".">>,
     \* "I'll dim the lights for you."
     LightsDim |->
        <<"I", "'", "l", "l", " ", "d", "i", "m", " ", "t", "h", "e", " ", "l", "i",
          "g", "h", "t", "s", " ", "f", "o", "r", " ", "y", "o", "u", ".">>,
     \* "I'll adjust the temperature for you."
     TemperatureSet |->
        <<"I", "'", "l", "l", " ", "a", "d", "j", "u", "s", "t", " ", "t", "h", "e",
          " ", "t", "e", "m", "p", "e", "r", "a", "t", "u", "r", "e", " ", "f", "o",
          "r", " ", "y", "o", "u", ".">>,
     \* "The current temperature is 22°C. Would you like me to adjust it?"
     TemperatureIs |->
        <<"T", "h", "e", " ", "c", "u", "r", "r", "e", "n", "t", " ", "t", "e", "m",
          "p", "e", "r", "a", "t", "u", "r", "e", " ", "i", "s", " ", "2", "2", "°",
          "C", ".", " ", "W", "o", "u", "l", "d", " ", "y", "o", "u", " ", "l", "i",
          "k", "e", " ", "m", "e", " ", "t", "o", " ", "a", "d", "j", "u", "s", "t",
          " ", "i", "t", "?">>,
     \* "I can help you control your smart home devices. Try asking me to turn on lights, adjust temperature, or check device status."
     Help |->
        <<"I", " ", "c", "a", "n", " ", "h", "e", "l", "p", " ", "y", "o", "u", " ",
          "c", "o", "n", "t", "r", "o", "l", " ", "y", "o", "u", "r", " ", "s", "m",
          "a", "r", "t", " ", "h", "o", "m", "e", " ", "d", "e", "v", "i", "c", "e",
          "s", ".", " ", "T", "r", "y", " ", "a", "s", "k", "i", "n", "g", " ", "m",
          "e", " ", "t", "o", " ", "t", "u", "r", "n", " ", "o", "n", " ", "l", "i",
          "g", "h", "t", "s", ",", " ", "a", "d", "j", "u", "s", "t", " ", "t", "e",
          "m", "p", "e", "r", "a", "t", "u", "r", "e", ",", " ", "o", "r", " ", "c",
          "h", "e", "c", "k", " ", "d", "e", "v", "i", "c", "e", " ", "s", "t", "a",
          "t", "u", "s", ".">>,
     \* "I understand you want to control your smart home, but I'm not sure exactly what you'd like me to do. Could you be more specific?"
     Unsure |->
        <<"I", " ", "u", "n", "d", "e", "r", "s", "t", "a", "n", "d", " ", "y", "o",
          "u", " ", "w", "a", "n", "t", " ", "t", "o", " ", "c", "o", "n", "t", "r",
          "o", "l", " ", "y", "o", "u", "r", " ", "s", "m", "a", "r", "t", " ", "h",
          "o", "m", "e", ",", " ", "b", "u", "t", " ", "I", "'", "m", " ", "n", "o",
          "t", " ", "s", "u", "r", "e", " ", "e", "x", "a", "c", "t", "l", "y", " ",
          "w", "h", "a", "t", " ", "y", "o", "u", "'", "d", " ", "l", "i", "k", "e",
          " ", "m", "e", " ", "t", "o", " ", "d", "o", ".", " ", "C", "o", "u", "l",
          "d", " ", "y", "o", "u", " ", "b", "e", " ", "m", "o", "r", "e", " ", "s",
          "p", "e", "c", "i", "f", "i", "c", "?">>]

-----------------------------------------------------------------------------
(* internal/llm/service.go: the Service that talks to Ollama *)

NoActions == <<>>

TurnOnAction == DeviceAction("turn_on", FALSE, EmptyMap)
TurnOffAction == DeviceAction("turn_off", FALSE, EmptyMap)
DimAction == DeviceAction("set_brightness", FALSE, MapOf("brightness", GoInt(128)))
SetTemperatureAction == DeviceAction("set_temperature", FALSE, MapOf("temperature", GoInt(22)))

\* parseCommand: the rule-based reply and its at most one action
parseCommand(message) ==
    LET m == ToLower(TrimSpace(message)) IN
    IF Contains(m, Kw.turn_on) /\ Contains(m, Kw.light)
    THEN [response |-> Reply.LightsOn, actions |-> <<TurnOnAction>>]
    ELSE IF Contains(m, Kw.turn_off) /\ Contains(m, Kw.light)
    THEN [response |-> Reply.LightsOff, actions |-> <<TurnOffAction>>]
    ELSE IF Contains(m, Kw.dim) /\ Contains(m, Kw.light)
    THEN [response |-> Reply.LightsDim, actions |-> <<DimAction>>]
    ELSE IF Contains(m, Kw.temperature) \/ Contains(m, Kw.thermostat)
    THEN (IF Contains(m, Kw.set)
          THEN [response |-> Reply.TemperatureSet, actions |-> <<SetTemperatureAction>>]
          ELSE [response |-> Reply.TemperatureIs, actions |-> NoActions])
    ELSE IF Contains(m, Kw.status) \/ Contains(m, Kw.what)
    THEN [response |-> Reply.Help, actions |-> NoActions]
    ELSE [response |-> Reply.Unsure, actions |-> NoActions]

\* extractActionsFromResponse: one action per kind of phrase the reply holds
extractActionsFromResponse(response) ==
    LET r == ToLower(response) IN
    (IF Contains(r, Kw.turn_on) \/ Contains(r, Kw.turning_on) THEN <<TurnOnAction>> ELSE <<>>)
        \o (IF Contains(r, Kw.turn_off) \/ Contains(r, Kw.turning_off)
            THEN <<TurnOffAction>> ELSE <<>>)
        \o (IF Contains(r, Kw.dim) \/ Contains(r, Kw.dimming) THEN <<DimAction>> ELSE <<>>)

\* what the request to Ollama ends in: a failure (deadline, transport, status,
\* body, an error field), or the text of the response
GenerationFailed == [ok |-> FALSE, text |-> <<>>]
Generated(text) == [ok |-> TRUE, text |-> text]

\* generateResponse returns the response trimmed
generateResponseMutant(generation) == [err |-> FALSE, response |-> TrimSpace(generation.text)]
generateResponse(generation) ==
    [err |-> ~generation.ok, response |-> TrimSpace(generation.text)]

\* (the prompt of createSmartHomePrompt only goes into the request to Ollama, whose
\* outcome `generation` is any failure or text)
ProcessMessage(connected, message, generation) ==
    IF ~connected
    THEN [err |-> Errorf(<<"not", "connected", "to", "Ollama">>),
          response |-> <<>>, actions |-> NoActions]
    ELSE LET g == generateResponse(generation) IN
    IF g.err
    THEN LET fallback == parseCommand(message)
         IN  [err |-> NoError, response |-> fallback.response, actions |-> fallback.actions]
    ELSE [err |-> NoError, response |-> g.response,
          actions |-> extractActionsFromResponse(g.response)]

-----------------------------------------------------------------------------
(* encoding/json, as far as parseResponse uses it: json.Unmarshal of a text  *)
(* into the anonymous struct {Response, Actions[]{Action, DeviceType,        *)
(* Parameters}}. The texts that are decoded hold no escape sequence and no   *)
(* exponent, so the scanner below knows neither.                             *)

\* a decoded JSON value: its kind and, by kind, its characters, elements or members
JNull == [t |-> "null", v |-> <<>>]
JBool(chars) == [t |-> "bool", v |-> chars]
JNumber(chars) == [t |-> "number", v |-> chars]
JString(chars) == [t |-> "string", v |-> chars]
JArray(elements) == [t |-> "array", v |-> elements]
JObject(members) == [t |-> "object", v |-> members]

Digits == {"0", "1", "2", "3", "4", "5", "6", "7", "8", "9"}

\* what the scanner returns: the value read and the position after it, or a syntax error
SyntaxError == [ok |-> FALSE, v |-> JNull, next |-> 0]
Scanned(value, next) == [ok |-> TRUE, v |-> value, next |-> next]

\* F of the value, the value computed once
With(value, F(_)) == CHOOSE result \in {F(x) : x \in {value}} : TRUE

\* the first position from i on whose character is not in `set`, or Len(s) + 1
RECURSIVE FirstNotIn(_, _, _)
FirstNotIn(s, i, set) ==
    IF i > Len(s) \/ s[i] \notin set THEN i ELSE FirstNotIn(s, i + 1, set)

\* JSON's insignificant whitespace is skipped
SkipSpace(s, i) == FirstNotIn(s, i, {" ", "\t", "\n", "\r"})

\* the character at i, or "" past the end
At(s, i) == IF i \in 1..Len(s) THEN s[i] ELSE ""

\* the position of the quote that closes the string whose characters start at i; 0 when
\* there is none, or a control character comes first
RECURSIVE ClosingQuote(_, _)
ClosingQuote(s, i) ==
    IF i > Len(s) \/ s[i] \in {"\n", "\t", "\r", "\\"}
    THEN 0
    ELSE IF s[i] = "\""
    THEN i
    ELSE ClosingQuote(s, i + 1)

\* a string: from the quote at i to the next quote
ScanString(s, i) ==
    IF At(s, i) # "\""
    THEN SyntaxError
    ELSE With(ClosingQuote(s, i + 1),
              LAMBDA close :
                  IF close = 0
                  THEN SyntaxError
                  ELSE Scanned(JString(SubSeq(s, i + 1, close - 1)), close + 1))

\* a number: -? (0 | [1-9][0-9]*) (. [0-9]+)?
ScanNumber(s, i) ==
    With(IF At(s, i) = "-" THEN i + 1 ELSE i,
         LAMBDA first :
             With(FirstNotIn(s, first, Digits),
                  LAMBDA intEnd :
                      IF intEnd = first \/ (s[first] = "0" /\ intEnd > first + 1)
                      THEN SyntaxError
                      ELSE IF At(s, intEnd) # "."
                      THEN Scanned(JNumber(SubSeq(s, i, intEnd - 1)), intEnd)
                      ELSE With(FirstNotIn(s, intEnd + 1, Digits),
                                LAMBDA fracEnd :
                                    IF fracEnd = intEnd + 1
                                    THEN SyntaxError
                                    ELSE Scanned(JNumber(SubSeq(s, i, fracEnd - 1)),
                                                 fracEnd))))

\* the characters of `word` stand at i
Match(s, i, word) ==
    /\ i + Len(word) - 1 <= Len(s)
    /\ SubSeq(s, i, i + Len(word) - 1) = word

\* true, false and null
ScanLiteral(s, i) ==
    IF Match(s, i, <<"t", "r", "u", "e">>)
    THEN Scanned(JBool(<<"t", "r", "u", "e">>), i + 4)
    ELSE IF Match(s, i, <<"f", "a", "l", "s", "e">>)
    THEN Scanned(JBool(<<"f", "a", "l", "s", "e">>), i + 5)
    ELSE IF Match(s, i, <<"n", "u", "l", "l">>)
    THEN Scanned(JNull, i + 4)
    ELSE SyntaxError

RECURSIVE ScanValue(_, _)
RECURSIVE ScanMembers(_, _, _)
RECURSIVE ScanElements(_, _, _)

\* any value, after whitespace
ScanValue(s, i) ==
    With(SkipSpace(s, i),
         LAMBDA j :
             IF At(s, j) = "{"
             THEN With(SkipSpace(s, j + 1),
                       LAMBDA k : IF At(s, k) = "}"
                                  THEN Scanned(JObject(<<>>), k + 1)
                                  ELSE ScanMembers(s, k, <<>>))
             ELSE IF At(s, j) = "["
             THEN With(SkipSpace(s, j + 1),
                       LAMBDA k : IF At(s, k) = "]"
                                  THEN Scanned(JArray(<<>>), k + 1)
                                  ELSE ScanElements(s, k, <<>>))
             ELSE IF At(s, j) = "\""
             THEN ScanString(s, j)
             ELSE IF At(s, j) \in Digits \cup {"-"}
             THEN ScanNumber(s, j)
             ELSE ScanLiteral(s, j))

\* what follows a member or an element: a comma and more, or the closing character
AfterValue(s, i, close) ==
    With(SkipSpace(s, i),
         LAMBDA after : IF At(s, after) = "," THEN [more |-> TRUE, next |-> after + 1]
                        ELSE IF At(s, after) = close THEN [more |-> FALSE, next |-> after + 1]
                        ELSE [more |-> FALSE, next |-> 0])

\* the members of an object from i on, `members` read so far: "key": value, ... }
ScanMembers(s, i, members) ==
    With(ScanString(s, SkipSpace(s, i)),
         LAMBDA key :
             IF ~key.ok
             THEN SyntaxError
             ELSE With(SkipSpace(s, key.next),
                       LAMBDA colon :
                           IF At(s, colon) # ":"
                           THEN SyntaxError
                           ELSE With(ScanValue(s, colon + 1),
                                     LAMBDA value :
                                         IF ~value.ok
                                         THEN SyntaxError
                                         ELSE With(<<AfterValue(s, value.next, "}"),
                                                     Append(members,
                                                            [k |-> key.v.v, v |-> value.v])>>,
                                                   LAMBDA read :
                                                       IF read[1].more
                                                       THEN ScanMembers(s, read[1].next, read[2])
                                                       ELSE IF read[1].next = 0
                                                       THEN SyntaxError
                                                       ELSE Scanned(JObject(read[2]),
                                                                    read[1].next)))))

\* the elements of an array from i on, `elements` read so far: value, ... ]
ScanElements(s, i, elements) ==
    With(ScanValue(s, i),
         LAMBDA value :
             IF ~value.ok
             THEN SyntaxError
             ELSE With(<<AfterValue(s, value.next, "]"), Append(elements, value.v)>>,
                       LAMBDA read :
                           IF read[1].more
                           THEN ScanElements(s, read[1].next, read[2])
                           ELSE IF read[1].next = 0
                           THEN SyntaxError
                           ELSE Scanned(JArray(read[2]), read[1].next)))

\* the whole text is one value: anything but whitespace after it is a syntax error
Valid(s) ==
    With(ScanValue(s, 1),
         LAMBDA value :
             IF value.ok /\ SkipSpace(s, value.next) > Len(s) THEN value ELSE SyntaxError)

\* the members of an object that a struct field takes: the keys equal to its tag under
\* case folding, the null ones aside (null leaves a field as it is)
Taken(members, tag) ==
    {i \in 1..Len(members) : ToLower(members[i].k) = tag /\ members[i].v.t # "null"}

\* the field's value: that of the last such member; none leaves the zero value
Present(members, tag) == Taken(members, tag) # {}
Last(members, tag) ==
    members[CHOOSE i \in Taken(members, tag) : \A j \in Taken(members, tag) : i >= j].v

\* a member of another kind than the field's type is an UnmarshalTypeError
Mistyped(members, tag, kind) == \E i \in Taken(members, tag) : members[i].v.t # kind

\* a string field
StringField(members, tag) ==
    IF Present(members, tag) /\ ~Mistyped(members, tag, "string")
    THEN Last(members, tag).v
    ELSE <<>>

\* one element of Actions: its Action and its Parameters (nil without the member)
NoParameters == [nil |-> TRUE, members |-> <<>>]
ZeroAction == [Action |-> <<>>, DeviceType |-> <<>>, Parameters |-> NoParameters]
ActionElement(element) ==
    IF element.t # "object"
    THEN ZeroAction
    ELSE [Action |-> StringField(element.v, <<"a", "c", "t", "i", "o", "n">>),
          DeviceType |->
              StringField(element.v, <<"d", "e", "v", "i", "c", "e", "_", "t", "y", "p", "e">>),
          Parameters |->
              IF Present(element.v, <<"p", "a", "r", "a", "m", "e", "t", "e", "r", "s">>)
                 /\ ~Mistyped(element.v, <<"p", "a", "r", "a", "m", "e", "t", "e", "r", "s">>,
                              "object")
              THEN [nil |-> FALSE,
                    members |->
                        Last(element.v,
                             <<"p", "a", "r", "a", "m", "e", "t", "e", "r", "s">>).v]
              ELSE NoParameters]

ElementMistyped(element) ==
    /\ element.t # "null"
    /\ \/ element.t # "object"
       \/ Mistyped(element.v, <<"a", "c", "t", "i", "o", "n">>, "string")
       \/ Mistyped(element.v, <<"d", "e", "v", "i", "c", "e", "_", "t", "y", "p", "e">>,
                   "string")
       \/ Mistyped(element.v, <<"p", "a", "r", "a", "m", "e", "t", "e", "r", "s">>, "object")

\* json.Unmarshal([]byte(response), &jsonResponse): err for a syntax error or a value of
\* the wrong kind; members the struct has no field for are skipped
Unmarshal(response) ==
    With(Valid(response),
         LAMBDA value :
             IF ~value.ok
             THEN [err |-> TRUE, Response |-> <<>>, Actions |-> <<>>]
             ELSE IF value.v.t = "null"
             THEN [err |-> FALSE, Response |-> <<>>, Actions |-> <<>>]
             ELSE IF value.v.t # "object"
             THEN [err |-> TRUE, Response |-> <<>>, Actions |-> <<>>]
             ELSE With(IF Present(value.v.v, <<"a", "c", "t", "i", "o", "n", "s">>)
                          /\ ~Mistyped(value.v.v, <<"a", "c", "t", "i", "o", "n", "s">>,
                                       "array")
                       THEN Last(value.v.v, <<"a", "c", "t", "i", "o", "n", "s">>).v
                       ELSE <<>>,
                       LAMBDA elements :
                           [err |->
                               \/ Mistyped(value.v.v,
                                           <<"r", "e", "s", "p", "o", "n", "s", "e">>, "string")
                               \/ Mistyped(value.v.v, <<"a", "c", "t", "i", "o", "n", "s">>,
                                           "array")
                               \/ \E i \in 1..Len(elements) : ElementMistyped(elements[i]),
                            Response |->
                                StringField(value.v.v,
                                            <<"r", "e", "s", "p", "o", "n", "s", "e">>),
                            Actions |->
                                [i \in 1..Len(elements) |-> ActionElement(elements[i])]]))

-----------------------------------------------------------------------------
(* internal/llm/service.go: the Service over an LLMBackend *)

\* strings.Index and strings.LastIndex of a one-character string: 0 stands for -1
Index(s, c) ==
    LET at == {i \in 1..Len(s) : s[i] = c} IN
    IF at = {} THEN 0 ELSE CHOOSE i \in at : \A j \in at : i <= j
LastIndex(s, c) ==
    LET at == {i \in 1..Len(s) : s[i] = c} IN
    IF at = {} THEN 0 ELSE CHOOSE i \in at : \A j \in at : i >= j

\* "Clean response": from the first "{" on
FromFirstBrace(response) ==
    IF Index(response, "{") > 0
    THEN SubSeq(response, Index(response, "{"), Len(response))
    ELSE response

\* and up to the last "}"
ToLastBraceMutant(response) == response
ToLastBrace(response) ==
    IF LastIndex(response, "}") > 0
    THEN SubSeq(response, 1, LastIndex(response, "}"))
    ELSE response

\* parseResponse: the reply and the actions of the JSON object in the text, or the
\* cleaned text and no action
parseResponse(response) ==
    With(ToLastBrace(FromFirstBrace(TrimSpace(response))),
         LAMBDA cleaned :
             With(Unmarshal(cleaned),
                  LAMBDA jsonResponse :
                      IF jsonResponse.err
                      THEN [response |-> cleaned, actions |-> <<>>, err |-> FALSE]
                      ELSE [response |-> jsonResponse.Response,
                            actions |-> [i \in 1..Len(jsonResponse.Actions) |->
                                            [Action |-> jsonResponse.Actions[i].Action,
                                             Parameters |->
                                                 jsonResponse.Actions[i].Parameters]],
                            err |-> FALSE]))

\* LocalBackend.GenerateResponse: the text of llama.cpp or of the smart fallback while
\* the model is loaded
BackendGenerateResponseMutant(loaded, text) == [err |-> TRUE, response |-> <<>>]
BackendGenerateResponse(loaded, text) ==
    IF ~loaded THEN [err |-> TRUE, response |-> <<>>] ELSE [err |-> FALSE, response |-> text]

\* Service.ProcessMessage over a backend that is loaded or not and answers `text`
\* (formatPrompt executes two fixed templates and does not fail)
ProcessMessageWithBackend(loaded, message, text) ==
    IF ~loaded
    THEN [err |-> Errorf(<<"model", "not", "loaded">>), response |-> <<>>, actions |-> <<>>]
    ELSE With(BackendGenerateResponse(loaded, text),
              LAMBDA g :
                  IF g.err
                  THEN [err |-> Errorf(<<"failed", "to", "generate", "response">>),
                        response |-> <<>>, actions |-> <<>>]
                  ELSE With(parseResponse(g.response),
                            LAMBDA parsed :
                                IF parsed.err
                                THEN [err |-> NoError, response |-> g.response,
                                      actions |-> <<>>]
                                ELSE [err |-> NoError, response |-> parsed.response,
                                      actions |-> parsed.actions]))

-----------------------------------------------------------------------------
(* internal/conversation/manager.go and internal/api/handlers.go *)

\* how many messages a conversation can hold, and how far the clock runs
MaxMessages == 3
MaxClock == 1

\* uuid.Nil, and the ids uuid.New() gives: a chat turn and its follow-ups need one
NilUUID == "00000000"
ConvIds == {"c0a80101"}

\* models.Context, by the devices it refers to
EmptyContext == [ReferencedDevices |-> <<>>]

NoConversation ==
    [exists |-> FALSE, Messages |-> <<>>, CreatedAt |-> 0, UpdatedAt |-> 0,
     Context |-> EmptyContext]

\* NewManager of the conversation package: an empty map
NewConversationManager == [id \in ConvIds |-> NoConversation]

\* CreateConversation's new value: no messages, created and updated now
NewConversation(t) ==
    [exists |-> TRUE, Messages |-> <<>>, CreatedAt |-> t, UpdatedAt |-> t,
     Context |-> EmptyContext]

Message(role, content, t) == [Role |-> role, Content |-> content, Timestamp |-> t]

NoChat == [message |-> <<>>, conversationID |-> NilUUID, status |-> 0,
           response |-> <<>>, actions |-> NoActions, convID |-> NilUUID]

\* the for loop of HandleChat: ExecuteAction on every action, its error only logged
ExecuteActions(actions) == [i \in 1..Len(actions) |-> Step("ExecuteAction")]

\* HandleChat on the conversation convID of store `convs` (already looked up or created)
\* conv is a pointer into the store, so each append changes the stored conversation
HandleChatTurn(convs, convID, message, connected, generation, t) ==
    LET withUser == [convs EXCEPT ![convID].Messages = Append(@, Message("user", message, t))]
        p == ProcessMessage(connected, message, generation)
    IN  IF p.err # NoError
        THEN [status |-> 500, convs |-> withUser, response |-> <<>>,
              actions |-> NoActions, steps |-> <<>>]
        ELSE [status |-> 200,
              \* UpdateConversation stamps the conversation and stores it again
              convs |-> [withUser EXCEPT
                            ![convID].Messages = Append(@, Message("assistant", p.response, t)),
                            ![convID].UpdatedAt = t],
              response |-> p.response,
              actions |-> p.actions,
              steps |-> ExecuteActions(p.actions)]

-----------------------------------------------------------------------------
(* internal/conversation/manager.go: the operations of the store, each of    *)
(* which holds m.mutex from its first statement to its return                *)

\* how many messages the store is given to keep in a conversation
MaxStoreMessages == 2

\* the ids uuid.New() gives to the conversations of the store; messages go to the first,
\* the second is created, looked up, cleaned up and deleted next to it
FirstConv == "c0a80101"
StoreIds == {FirstConv, "c0a80102"}

\* make(map[uuid.UUID]*models.Conversation), for the ids of the store
EmptyStore == [id \in StoreIds |-> NoConversation]

\* the ids of the conversations in the store
Stored(convs) == {id \in DOMAIN convs : convs[id].exists}

\* fmt.Errorf("conversation not found: %s", id)
ConversationNotFound(id) == Errorf(<<"conversation", "not", "found", ":", id>>)

\* CreateConversation, with the id uuid.New() gave
CreateConversation(convs, id, t) == [convs EXCEPT ![id] = NewConversation(t)]

\* GetConversation
GetConversation(convs, id) ==
    IF id \notin Stored(convs)
    THEN [conv |-> NoConversation, err |-> ConversationNotFound(id)]
    ELSE [conv |-> convs[id], err |-> NoError]

\* UpdateConversation: conv is stamped and stored under its id
UpdateConversationMutant(convs, id, conv, t) ==
    IF id \notin DOMAIN convs
    THEN [convs |-> convs, err |-> ConversationNotFound(id)]
    ELSE [convs |-> [convs EXCEPT ![id] = [conv EXCEPT !.exists = TRUE, !.UpdatedAt = t]],
          err |-> NoError]
UpdateConversation(convs, id, conv, t) ==
    IF id \notin Stored(convs)
    THEN [convs |-> convs, err |-> ConversationNotFound(id)]
    ELSE [convs |-> [convs EXCEPT ![id] = [conv EXCEPT !.UpdatedAt = t]], err |-> NoError]

\* DeleteConversation
DeleteConversation(convs, id) ==
    IF id \notin Stored(convs)
    THEN [convs |-> convs, err |-> ConversationNotFound(id)]
    ELSE [convs |-> [convs EXCEPT ![id] = NoConversation], err |-> NoError]

\* AddMessage: append and stamp
AddMessageMutant(convs, id, message, t) ==
    IF id \notin Stored(convs)
    THEN [convs |-> convs, err |-> ConversationNotFound(id)]
    ELSE [convs |-> [convs EXCEPT ![id].Messages = <<message>> \o @, ![id].UpdatedAt = t],
          err |-> NoError]
AddMessage(convs, id, message, t) ==
    IF id \notin Stored(convs)
    THEN [convs |-> convs, err |-> ConversationNotFound(id)]
    ELSE [convs |-> [convs EXCEPT ![id].Messages = Append(@, message), ![id].UpdatedAt = t],
          err |-> NoError]

\* UpdateContext: replace and stamp
UpdateContext(convs, id, context, t) ==
    IF id \notin Stored(convs)
    THEN [convs |-> convs, err |-> ConversationNotFound(id)]
    ELSE [convs |-> [convs EXCEPT ![id].Context = context, ![id].UpdatedAt = t],
          err |-> NoError]

\* messages[len(messages)-limit:], which panics when the low bound is above the length
SliceFrom(messages, limit) ==
    IF Len(messages) - limit > Len(messages)
    THEN [messages |-> <<>>, panicked |-> TRUE]
    ELSE [messages |-> SubSeq(messages, Len(messages) - limit + 1, Len(messages)),
          panicked |-> FALSE]

\* GetRecentMessages
GetRecentMessagesMutant(convs, id, limit) ==
    IF id \notin Stored(convs)
    THEN [messages |-> <<>>, err |-> ConversationNotFound(id), panicked |-> FALSE]
    ELSE IF Len(convs[id].Messages) <= limit
    THEN [messages |-> convs[id].Messages, err |-> NoError, panicked |-> FALSE]
    ELSE [messages |-> SubSeq(convs[id].Messages, 1, limit), err |-> NoError,
          panicked |-> limit < 0]
GetRecentMessages(convs, id, limit) ==
    IF id \notin Stored(convs)
    THEN [messages |-> <<>>, err |-> ConversationNotFound(id), panicked |-> FALSE]
    ELSE IF Len(convs[id].Messages) <= limit
    THEN [messages |-> convs[id].Messages, err |-> NoError, panicked |-> FALSE]
    ELSE [messages |-> SliceFrom(convs[id].Messages, limit).messages, err |-> NoError,
          panicked |-> SliceFrom(convs[id].Messages, limit).panicked]

\* conv.UpdatedAt.Before(cutoff)
BeforeMutant(t, cutoff) == t <= cutoff
Before(t, cutoff) == t < cutoff

\* CleanupOldConversations at time t
CleanupOldConversations(convs, maxAge, t) ==
    LET cutoff == t - maxAge
        old == {id \in Stored(convs) : Before(convs[id].UpdatedAt, cutoff)}
    IN  [convs |-> [id \in DOMAIN convs |-> IF id \in old THEN NoConversation ELSE convs[id]],
         deleted |-> Cardinality(old)]

\* no call of the store
NoCall ==
    [name |-> "", id |-> NilUUID, message |-> Message("", <<>>, 0), context |-> EmptyContext,
     conv |-> NoConversation, limit |-> 0, maxAge |-> 0, at |-> 0, before |-> EmptyStore,
     err |-> NoError, found |-> NoConversation, messages |-> <<>>, panicked |-> FALSE,
     deleted |-> 0, saved |-> ""]

-----------------------------------------------------------------------------
(* internal/database/db.go and the Manager built by NewManagerWithDB: the     *)
(* tables, the save in one transaction, and the loads                         *)

\* the values of messages.id, the primary key: the k-th message made has ID k
MessageKeys == 1..MaxStoreMessages

\* a models.Message with its ID
MessageWithID(k, t) == [ID |-> k, Role |-> "user", Content |-> <<"h", "i">>, Timestamp |-> t]

\* no row
NoRow == [present |-> FALSE, conversation_id |-> NilUUID, message |-> MessageWithID(0, 0)]

\* the tables after initSchema on a new file
EmptyDB ==
    [conversations |-> [id \in StoreIds |-> NoConversation],
     messages |-> [k \in MessageKeys |-> NoRow],
     foreign_keys |-> FALSE]

\* the IDs of the messages in a list
IDsOf(messages) == {messages[i].ID : i \in 1..Len(messages)}

\* SaveConversation when the transaction commits: INSERT OR REPLACE of the conversation
\* row, and of one row per message of conv, by message ID. The rows of messages that conv
\* no longer holds are deleted (ON DELETE CASCADE, as REPLACE deletes the old conversation
\* row) only when the SQLite library enforces foreign keys, which it does not by default
\* and New does not ask for
SaveConversation(db, id, conv) ==
    [foreign_keys |-> db.foreign_keys,
     conversations |-> [db.conversations EXCEPT ![id] = [conv EXCEPT !.Messages = <<>>]],
     messages |->
        [k \in MessageKeys |->
            IF k \in IDsOf(conv.Messages)
            THEN [present |-> TRUE, conversation_id |-> id,
                  message |-> conv.Messages[CHOOSE i \in 1..Len(conv.Messages) :
                                 /\ conv.Messages[i].ID = k
                                 /\ \A j \in (i + 1)..Len(conv.Messages) :
                                       conv.Messages[j].ID # k]]
            ELSE IF db.foreign_keys /\ db.messages[k].conversation_id = id
            THEN NoRow
            ELSE db.messages[k]]]

\* the rows SELECT ... FROM messages WHERE conversation_id = ? finds
RowsOf(db, id) ==
    {k \in MessageKeys : db.messages[k].present /\ db.messages[k].conversation_id = id}

\* the lists ORDER BY timestamp ASC can give for these rows: every order of them in
\* which no timestamp decreases (the order of equal timestamps is not specified)
OrderedByTimestamp(db, rows) ==
    {[i \in 1..Cardinality(rows) |-> db.messages[order[i]].message] :
        order \in {o \in [1..Cardinality(rows) -> rows] :
            /\ \A i, j \in 1..Cardinality(rows) : i # j => o[i] # o[j]
            /\ \A i, j \in 1..Cardinality(rows) :
                  i < j => db.messages[o[i]].message.Timestamp
                              <= db.messages[o[j]].message.Timestamp}}

\* DB.GetConversation: the conversations it can return, none when there is no row
DBGetConversation(db, id) ==
    IF ~db.conversations[id].exists
    THEN {}
    ELSE {[db.conversations[id] EXCEPT !.Messages = messages] :
              messages \in OrderedByTimestamp(db, RowsOf(db, id))}

\* loadConversationsFromDB: the maps it can fill from DB.GetAllConversations
LoadConversationsFromDB(db) ==
    {convs \in [StoreIds -> {NoConversation} \cup UNION {DBGetConversation(db, id) :
                                                            id \in StoreIds}] :
        \A id \in StoreIds :
            IF db.conversations[id].exists
            THEN convs[id] \in DBGetConversation(db, id)
            ELSE convs[id] = NoConversation}

\* what UpdateConversation returns when the save has failed
SaveFailureMutant(err) == err
SaveFailure(err) == NoError

\* UpdateConversation of the Manager with a database: the update in memory first, then
\* the save, whose failure is logged
UpdateConversationWithDB(convs, db, id, conv, t, saveFails) ==
    LET r == UpdateConversation(convs, id, conv, t)
    IN  IF r.err # NoError
        THEN [convs |-> r.convs, db |-> db, err |-> r.err, saved |-> ""]
        ELSE IF saveFails
        THEN [convs |-> r.convs, db |-> db, saved |-> "failed",
              err |-> SaveFailure(Errorf(<<"failed", "to", "save", "conversation">>))]
        ELSE [convs |-> r.convs, db |-> SaveConversation(db, id, r.convs[id]),
              err |-> NoError, saved |-> "ok"]

-----------------------------------------------------------------------------
(* internal/device/manager.go: the cache of whole devices, its freshness and *)
(* its lock, as GetAllDevices, RefreshDevices and the Find helpers use them  *)

\* how often the clock is advanced, and how many read locks can be held at once
MaxSleeps == 2
MaxReaders == 2

\* `30*time.Second`, in seconds
CacheTTL == 30

\* the zero time.Time NewManager leaves in lastUpdate, centuries before the program
\* started, and the largest time.Duration (about 292 years): far more than every age
\* the clock of the model can reach
ZeroTime == -2000000000
MaxDuration == 2000000000

\* time.Since(t) at clock time t0; Time.Sub saturates at the largest Duration
Since(t, t0) == IF t0 - t > MaxDuration THEN MaxDuration ELSE t0 - t

\* time.Since(m.lastUpdate) > 30*time.Second
StaleMutant(age) == age >= CacheTTL
Stale(age) == age > CacheTTL

\* the entities of the gateway that the registry is asked about
RegistryIds == {"light.bedroom", "switch.porch"}

\* friendly_name of each entity
FriendlyName(id) ==
    IF id = "light.bedroom"
    THEN <<"B", "e", "d", "r", "o", "o", "m", " ", "L", "i", "g", "h", "t">>
    ELSE <<"P", "o", "r", "c", "h", " ", "S", "w", "i", "t", "c", "h">>

EntityStates == {"on", "off"}

\* convertEntityToDevice: the models.Device of an entity in a state
Device(id, state) ==
    [ID |-> id, Name |-> FriendlyName(id), Type |-> HAEntities[id], State |-> state]

\* no entry under a key of the map
NoEntry == [ID |-> "", Name |-> <<>>, Type |-> "", State |-> ""]

\* make(map[string]models.Device)
EmptyCache == [id \in RegistryIds |-> NoEntry]

\* the devices a map holds (its values)
Values(cache) == {cache[id] : id \in {i \in RegistryIds : cache[i] # NoEntry}}

\* len(m.devices) == 0
SurfaceErrorMutant(cache) == TRUE
SurfaceError(cache) == Values(cache) = {}

\* GetEntities: the list of devices the gateway answers with, as id -> device;
\* an entity can be missing from it, and its state changes from list to list
EntityList(present, state) ==
    [id \in RegistryIds |-> IF id \in present THEN Device(id, state) ELSE NoEntry]

EntityLists ==
    {EntityList({}, "on"), EntityList({"light.bedroom"}, "on"), EntityList(RegistryIds, "off")}

\* RefreshDevices, after the fetch: a fresh map filled with the fetched devices
ReplaceAll(cache, fetched) == fetched

\* GetDevice, after the point lookup: m.devices[deviceID] = *freshDevice
MergeDeviceMutant(cache, deviceID, fresh) == cache
MergeDevice(cache, deviceID, fresh) == [cache EXCEPT ![deviceID] = fresh]

\* the ids GetDevice is asked for
LookupIds == RegistryIds \cup {"nonexistent.device"}

\* FindDevicesByName: strings.Contains(strings.ToLower(device.Name), lowerName)
FindDevicesByNameMutant(cache, name) ==
    {d \in Values(cache) : Contains(ToLower(d.Name), name)}
FindDevicesByName(cache, name) ==
    {d \in Values(cache) : Contains(ToLower(d.Name), ToLower(name))}

\* FindDevicesByType: device.Type == deviceType
FindDevicesByType(cache, deviceType) ==
    {d \in Values(cache) : d.Type = deviceType}

\* the names and types the Find helpers are asked for
NameQueries ==
    {<<>>, <<"L", "I", "G", "H", "T">>, <<"f", "a", "n">>}
TypeQueries == {"light", "fan"}

\* sync.RWMutex: the number of read locks held, and the goroutine that called Lock
\* (from then on new readers wait; it holds the lock once no read lock is held)
NoThread == ""
Unlocked == [readers |-> 0, writer |-> NoThread]

\* RLock returns only while no writer holds or waits for the lock
CanRLock(mutex) == mutex.writer = NoThread

\* the goroutines that call the Manager
Threads == {"t1", "t2"}

\* a goroutine that is in no Manager call
IdleFrame ==
    [op |-> "", pc |-> "idle", deviceID |-> "", name |-> <<>>, deviceType |-> "",
     stale |-> FALSE, calls |-> <<>>, failed |-> FALSE, fetched |-> EmptyCache,
     fresh |-> NoEntry, err |-> NoError, result |-> {}, device |-> NoEntry,
     held |-> 0, after |-> {}, overtaken |-> FALSE]

\* conversation.Manager under concurrent callers

\* how many messages each goroutine adds
MaxAdds == 2

\* Lock returns only while no goroutine holds the lock, to read or to write
CanLockMutant(mutex) == TRUE
CanLock(mutex) == mutex.readers = 0 /\ mutex.writer = NoThread

\* a goroutine that is in no call of the store
IdleWorker ==
    [op |-> "", pc |-> "idle", message |-> Message("", <<>>, 0), messages |-> <<>>,
     exists |-> FALSE, err |-> NoError, found |-> NoConversation, added |-> <<>>, gets |-> 0]

\* llm.Service over an LLMBackend, under concurrent callers

\* a goroutine that is in no call of the Service
IdleCaller == [op |-> "", pc |-> "idle", loaded |-> FALSE, err |-> NoError, response |-> <<>>]

\* no text has been interpreted
NoTurn ==
    [done |-> FALSE, op |-> "", loaded |-> FALSE, message |-> <<>>, failed |-> FALSE,
     text |-> <<>>, tag |-> <<>>, err |-> NoError, response |-> <<>>, actions |-> <<>>,
     plain |-> [response |-> <<>>, actions |-> <<>>]]

\* NewLocalBackend leaves isLoaded false; the mutexes of a new Service and a new backend
\* are unlocked
InitLLM ==
    /\ isLoaded = FALSE
    /\ backendMutex = Unlocked
    /\ serviceMutex = Unlocked
    /\ callers = [t \in Threads |-> IdleCaller]
    /\ turn = NoTurn

-----------------------------------------------------------------------------
(* The state every specification starts from *)

InitCommon ==
    /\ devices = NewManager
    /\ op = NoOp
    /\ ret = NoError
    /\ pc = "idle"
    /\ trace = <<>>
    /\ isConnected = FALSE
    /\ conversations = NewConversationManager
    /\ now = 0
    /\ chat = NoChat
    /\ deviceCache = EmptyCache
    /\ lastUpdate = ZeroTime
    /\ devicesMutex = Unlocked
    /\ frames = [t \in Threads |-> IdleFrame]
    /\ call = NoCall
    /\ storeMutex = Unlocked
    /\ workers = [t \in Threads |-> IdleWorker]
    /\ durable = EmptyDB
    /\ InitLLM

-----------------------------------------------------------------------------
(* The validator on its own: one call of ValidateAction on any input *)

InitValidator ==
    /\ vAction \in ValidatorInputs
    /\ vResult = NoResult
    /\ vDone = FALSE
    /\ InitCommon

CallValidateAction ==
    /\ ~vDone
    /\ vResult' = ValidateAction(vAction)
    \* validateOnOff and validateCoverAction replace a nil Parameters map of the
    \* caller's action by an empty one
    /\ vAction' = IF vResult'.Valid /\ vAction.Action \in {"turn_on", "turn_off", "open", "close"}
                  THEN [vAction EXCEPT !.ParamsNil = FALSE]
                  ELSE vAction
    /\ vDone' = TRUE
    /\ UNCHANGED <<devices, callVars, chatVars, registryVars, storeVars, llmVars>>

NextValidator == CallValidateAction

SpecValidator == InitValidator /\ [][NextValidator]_vars

-----------------------------------------------------------------------------
(* The device manager: calls of its operations, one after the other *)

\* per parameter: values inside its range, outside it, and one that is no number
ExecValues(key) ==
    CASE key = "brightness" -> {GoInt(128), Float64(509), Float64(600), GoString}
      [] key = "temperature" -> {Float64(48), GoInt(15), Float64(100), GoString}
      [] key = "color_temp" -> {GoInt(3000), Float64(4000)}
      [] key = "humidity" -> {GoInt(50), GoInt(150)}

ExecParamMaps ==
    {EmptyMap} \cup UNION {{MapOf(key, v) : v \in ExecValues(key)} : key \in ParamKeys}

ExecActions ==
    {DeviceAction(name, TRUE, EmptyMap) : name \in ActionNames}
        \cup {DeviceAction(name, FALSE, p) : name \in ActionNames, p \in ExecParamMaps}

InitDevice ==
    /\ vAction = NilAction
    /\ vResult = NoResult
    /\ vDone = FALSE
    /\ InitCommon

CallExecuteActionOnDevice ==
    /\ pc = "idle"
    /\ \E deviceID \in DeviceIds, action \in ExecActions :
       \E entityOutcome \in GetEntityOutcomes(deviceID), svcOutcome \in CallServiceOutcomes :
          LET r == ExecuteActionOnDevice(devices, deviceID, action, entityOutcome, svcOutcome)
          IN  /\ devices' = r.cache
              /\ op' = [name |-> "ExecuteActionOnDevice", deviceID |-> deviceID,
                        action |-> action]
              /\ ret' = r.err
              /\ trace' = r.steps
    /\ pc' = "returned"
    /\ UNCHANGED <<validatorVars, chatVars, registryVars, storeVars, llmVars>>

CallGetDevice ==
    /\ pc = "idle"
    /\ \E deviceID \in DeviceIds :
       \E entityOutcome \in GetEntityOutcomes(deviceID) :
          LET r == GetDevice(devices, deviceID, entityOutcome)
          IN  /\ devices' = r.cache
              /\ op' = [name |-> "GetDevice", deviceID |-> deviceID, action |-> NilAction]
              /\ ret' = r.err
              /\ trace' = r.steps
    /\ pc' = "returned"
    /\ UNCHANGED <<validatorVars, chatVars, registryVars, storeVars, llmVars>>

\* the call is over: its caller has the result, its arguments and locals are gone
Return ==
    /\ pc = "returned"
    /\ pc' = "idle"
    /\ op' = NoOp
    /\ ret' = NoError
    /\ trace' = <<>>
    /\ UNCHANGED <<validatorVars, devices, registryVars>>

ReturnDevice ==
    /\ Return
    /\ UNCHANGED <<chatVars, storeVars, llmVars>>

NextDevice ==
    \/ CallExecuteActionOnDevice
    \/ CallGetDevice
    \/ ReturnDevice

SpecDevice == InitDevice /\ [][NextDevice]_vars

-----------------------------------------------------------------------------
(* mapActionToService called on its own, as TestMapActionToService calls it,  *)
(* beside the point lookups that fill the cache                              *)

\* the step records what the call returned: domain, service and service data
CallMapActionToService ==
    /\ pc = "idle"
    /\ \E deviceID \in DOMAIN HAEntities, action \in ExecActions :
          LET m == mapActionToService(HAEntities[deviceID], action)
          IN  /\ op' = [name |-> "mapActionToService", deviceID |-> deviceID,
                        action |-> action]
              /\ trace' = <<[Step("mapActionToService") EXCEPT
                                !.domain = m.domain, !.service = m.service,
                                !.data = m.serviceData]>>
    /\ ret' = NoError
    /\ pc' = "returned"
    /\ UNCHANGED <<validatorVars, devices, chatVars, registryVars, storeVars, llmVars>>

NextMapping ==
    \/ CallMapActionToService
    \/ CallGetDevice
    \/ ReturnDevice

SpecMapping == InitDevice /\ [][NextMapping]_vars

-----------------------------------------------------------------------------
(* The chat pipeline: POST /chat requests, one after the other *)

\* "turn on the bedroom lights"
MsgTurnOnBedroomLights ==
    <<"t", "u", "r", "n", " ", "o", "n", " ", "t", "h", "e", " ", "b", "e",
      "d", "r", "o", "o", "m", " ", "l", "i", "g", "h", "t", "s">>

\* " Dim the Lights "
MsgDimTheLights ==
    <<" ", "D", "i", "m", " ", "t", "h", "e", " ", "L", "i", "g", "h", "t",
      "s", " ">>

\* "Hello"
MsgHello ==
    <<"H", "e", "l", "l", "o">>

\* " Turning on the bedroom lights. "
GenTurningOn ==
    <<" ", "T", "u", "r", "n", "i", "n", "g", " ", "o", "n", " ", "t", "h",
      "e", " ", "b", "e", "d", "r", "o", "o", "m", " ", "l", "i", "g", "h",
      "t", "s", ".", " ">>

\* "I will turn off the fan and dim the lamp."
GenOffAndDim ==
    <<"I", " ", "w", "i", "l", "l", " ", "t", "u", "r", "n", " ", "o", "f",
      "f", " ", "t", "h", "e", " ", "f", "a", "n", " ", "a", "n", "d", " ",
      "d", "i", "m", " ", "t", "h", "e", " ", "l", "a", "m", "p", ".">>

\* "Hello! How can I help?"
GenGreeting ==
    <<"H", "e", "l", "l", "o", "!", " ", "H", "o", "w", " ", "c", "a", "n",
      " ", "I", " ", "h", "e", "l", "p", "?">>

ChatMessages == {MsgTurnOnBedroomLights, MsgDimTheLights, MsgHello, <<>>}

Generations == {GenerationFailed, Generated(GenTurningOn), Generated(GenOffAndDim),
                Generated(GenGreeting)}

InitChat ==
    /\ vAction = NilAction
    /\ vResult = NoResult
    /\ vDone = FALSE
    /\ InitCommon

\* LoadModel: the probe of Ollama and the test generation both succeed, or not
LoadModel ==
    /\ pc = "idle"
    /\ \E loaded \in BOOLEAN :
          /\ isConnected' = (IF loaded THEN TRUE ELSE isConnected)
          /\ ret' = IF loaded THEN NoError ELSE Errorf(<<"failed", "to", "connect", "to", "Ollama">>)
    /\ op' = [NoOp EXCEPT !.name = "LoadModel"]
    /\ trace' = <<>>
    /\ pc' = "returned"
    /\ UNCHANGED <<validatorVars, devices, conversations, now, chat, registryVars, storeVars, llmVars>>

UnloadModel ==
    /\ pc = "idle"
    /\ isConnected' = FALSE
    /\ op' = [NoOp EXCEPT !.name = "UnloadModel"]
    /\ ret' = NoError
    /\ trace' = <<>>
    /\ pc' = "returned"
    /\ UNCHANGED <<validatorVars, devices, conversations, now, chat, registryVars, storeVars, llmVars>>

Respond(message, conversationID, status, response, actions, convID) ==
    /\ chat' = [message |-> message, conversationID |-> conversationID, status |-> status,
                response |-> response, actions |-> actions, convID |-> convID]
    /\ op' = [NoOp EXCEPT !.name = "HandleChat"]
    /\ ret' = NoError
    /\ pc' = "returned"

HandleChat ==
    /\ pc = "idle"
    /\ \E message \in ChatMessages, conversationID \in ConvIds \cup {NilUUID},
          generation \in Generations :
          IF message = <<>>
          THEN \* binding:"required"
               /\ Respond(message, conversationID, 400, <<>>, NoActions, NilUUID)
               /\ trace' = <<>>
               /\ UNCHANGED conversations
          ELSE IF conversationID # NilUUID /\ ~conversations[conversationID].exists
          THEN /\ Respond(message, conversationID, 500, <<>>, NoActions, NilUUID)
               /\ trace' = <<>>
               /\ UNCHANGED conversations
          ELSE \E convID \in ConvIds :
               /\ IF conversationID # NilUUID
                  THEN convID = conversationID
                  ELSE ~conversations[convID].exists
               /\ Len(conversations[convID].Messages) + 2 <= MaxMessages
               /\ LET convs == IF conversationID # NilUUID
                               THEN conversations
                               ELSE [conversations EXCEPT ![convID] = NewConversation(now)]
                      r == HandleChatTurn(convs, convID, message, isConnected, generation, now)
                  IN  /\ conversations' = r.convs
                      /\ trace' = r.steps
                      /\ Respond(message, conversationID, r.status, r.response, r.actions,
                                 convID)
    /\ UNCHANGED <<validatorVars, devices, isConnected, now, registryVars, storeVars, llmVars>>

Tick ==
    /\ pc = "idle"
    /\ now < MaxClock
    /\ now' = now + 1
    /\ UNCHANGED <<validatorVars, devices, callVars, isConnected, conversations, chat,
                   registryVars, storeVars, llmVars>>

ReturnChat ==
    /\ Return
    /\ chat' = NoChat
    /\ UNCHANGED <<isConnected, conversations, now, storeVars, llmVars>>

NextChat ==
    \/ LoadModel
    \/ UnloadModel
    \/ HandleChat
    \/ Tick
    \/ ReturnChat

SpecChat == InitChat /\ [][NextChat]_vars

-----------------------------------------------------------------------------
(* The device registry: goroutines calling GetAllDevices, RefreshDevices,    *)
(* GetDevice and the Find helpers, step by step, while the clock runs        *)

InitRegistry ==
    /\ vAction = NilAction
    /\ vResult = NoResult
    /\ vDone = FALSE
    /\ InitCommon

UnchangedByRegistry == UNCHANGED <<validatorVars, devices, callVars, chatVars, storeVars, llmVars>>

\* the goroutines that can still take a read lock they will not give back
MayKeepReadLock ==
    {u \in Threads : frames[u].op = "GetAllDevices" /\ frames[u].pc \in {"refresh", "afterError"}}

\* the goroutines that hold an answer of the gateway they have not stored yet
Pending == {u \in Threads : frames[u].pc \in {"lock", "locked"}}

\* the stores of two calls write the same data: one of them replaces the whole map,
\* or both put the same device
SameData(f, g) ==
    f.op # "GetDevice" \/ g.op # "GetDevice" \/ f.deviceID = g.deviceID

\* the frames once goroutine t, whose frame becomes stored, has written what it
\* fetched: a pending answer fetched before the one of t is overtaken
AfterStore(t, stored) ==
    [u \in Threads |->
        IF u = t
        THEN [stored EXCEPT !.after = {}, !.overtaken = FALSE]
        ELSE [frames[u] EXCEPT
                !.after = @ \ {t},
                !.overtaken = @ \/ (/\ u \in Pending
                                    /\ u \in frames[t].after
                                    /\ SameData(frames[u], frames[t]))]]

\* m.devicesMutex.RLock() and RUnlock() in GetAllDevices: the count of read locks
\* after the call, for the lock (readers) and for the goroutine in its call (held)
RLocked(n) == n + 1
RUnlockedMutant(n) == n
RUnlocked(n) == n - 1

\* GetAllDevices up to the staleness test: RLock, time.Since(m.lastUpdate), and then
\* either RUnlock before the refresh or the copy of the map and the deferred RUnlock
GetAllDevices(t) ==
    /\ frames[t].pc = "idle"
    /\ CanRLock(devicesMutex)
    /\ LET age == Since(lastUpdate, now) IN
       /\ Stale(age) => devicesMutex.readers + Cardinality(MayKeepReadLock) < MaxReaders
       /\ frames' = [frames EXCEPT ![t] =
             IF Stale(age)
             THEN [IdleFrame EXCEPT !.op = "GetAllDevices", !.pc = "refresh", !.stale = TRUE,
                                    !.held = RUnlocked(RLocked(@))]
             ELSE [IdleFrame EXCEPT !.op = "GetAllDevices", !.pc = "returned",
                                    !.result = Values(deviceCache),
                                    !.held = RUnlocked(RLocked(@))]]
    /\ devicesMutex' = [devicesMutex EXCEPT !.readers = RUnlocked(RLocked(@))]
    /\ UNCHANGED <<deviceCache, lastUpdate>>
    /\ UnchangedByRegistry

\* RefreshDevices up to the answer of m.haClient.GetEntities(), called on its own
\* or by a stale GetAllDevices; no lock is held
RefreshDevices(t) ==
    /\ \/ frames[t].pc = "idle"
       \/ frames[t].op = "GetAllDevices" /\ frames[t].pc = "refresh"
    /\ LET f == IF frames[t].pc = "idle"
                THEN [IdleFrame EXCEPT !.op = "RefreshDevices"]
                ELSE frames[t]
           g == [f EXCEPT !.calls = Append(@, "GetEntities")]
       IN  \/ frames' = [frames EXCEPT ![t] =
                [g EXCEPT !.failed = TRUE,
                          !.pc = IF g.op = "GetAllDevices" THEN "afterError" ELSE "returned",
                          !.err = Wrap(<<"failed", "to", "fetch", "devices", "from",
                                         "HomeAssistant">>,
                                       GatewayError("failed to make request"))]]
           \/ \E list \in EntityLists :
                frames' = [frames EXCEPT ![t] =
                    [g EXCEPT !.fetched = list, !.pc = "lock", !.after = Pending \ {t}]]
    /\ UNCHANGED <<deviceCache, lastUpdate, devicesMutex>>
    /\ UnchangedByRegistry

\* m.devicesMutex.Lock() is called: later readers wait from now on
Lock(t) ==
    /\ frames[t].pc = "lock"
    /\ devicesMutex.writer = NoThread
    /\ devicesMutex' = [devicesMutex EXCEPT !.writer = t]
    /\ frames' = [frames EXCEPT ![t].pc = "locked"]
    /\ UNCHANGED <<deviceCache, lastUpdate>>
    /\ UnchangedByRegistry

\* RefreshDevices once Lock() has returned: replace the map, stamp it, Unlock
RefreshDevicesStore(t) ==
    /\ frames[t].op \in {"RefreshDevices", "GetAllDevices"}
    /\ frames[t].pc = "locked"
    /\ devicesMutex.readers = 0
    /\ deviceCache' = ReplaceAll(deviceCache, frames[t].fetched)
    /\ lastUpdate' = now
    /\ devicesMutex' = [devicesMutex EXCEPT !.writer = NoThread]
    /\ frames' = AfterStore(t, [frames[t] EXCEPT !.fetched = EmptyCache, !.pc =
                     IF frames[t].op = "GetAllDevices" THEN "rlock" ELSE "returned"])
    /\ UnchangedByRegistry

\* GetAllDevices after a failed refresh: RLock, and with an empty map RUnlock and
\* return the error; with devices in the map the read lock stays held
GetAllDevicesAfterError(t) ==
    /\ frames[t].op = "GetAllDevices"
    /\ frames[t].pc = "afterError"
    /\ CanRLock(devicesMutex)
    /\ IF SurfaceError(deviceCache)
       THEN /\ frames' = [frames EXCEPT ![t].pc = "returned",
                                        ![t].held = RUnlocked(RLocked(@))]
            /\ devicesMutex' = [devicesMutex EXCEPT !.readers = RUnlocked(RLocked(@))]
       ELSE /\ frames' = [frames EXCEPT ![t].pc = "rlock", ![t].err = NoError,
                                        ![t].held = RLocked(@)]
            /\ devicesMutex' = [devicesMutex EXCEPT !.readers = RLocked(@)]
    /\ UNCHANGED <<deviceCache, lastUpdate>>
    /\ UnchangedByRegistry

\* GetAllDevices after the refresh: RLock, copy the map, and the deferred RUnlock
GetAllDevicesCollect(t) ==
    /\ frames[t].op = "GetAllDevices"
    /\ frames[t].pc = "rlock"
    /\ CanRLock(devicesMutex)
    /\ devicesMutex' = [devicesMutex EXCEPT !.readers = RUnlocked(RLocked(@))]
    /\ frames' = [frames EXCEPT ![t].pc = "returned", ![t].result = Values(deviceCache),
                                ![t].held = RUnlocked(RLocked(@))]
    /\ UNCHANGED <<deviceCache, lastUpdate>>
    /\ UnchangedByRegistry

\* GetDevice up to the lookup in the map, under the read lock
GetDeviceLookup(t) ==
    /\ frames[t].pc = "idle"
    /\ CanRLock(devicesMutex)
    /\ \E deviceID \in LookupIds :
          LET exists == deviceID \in RegistryIds /\ deviceCache[deviceID] # NoEntry
              f == [IdleFrame EXCEPT !.op = "GetDevice", !.deviceID = deviceID]
          IN  frames' = [frames EXCEPT ![t] =
                 IF exists
                 THEN [f EXCEPT !.pc = "returned", !.device = deviceCache[deviceID]]
                 ELSE [f EXCEPT !.pc = "fetch"]]
    /\ UNCHANGED <<deviceCache, lastUpdate, devicesMutex>>
    /\ UnchangedByRegistry

\* GetDevice on a miss: the answer of m.haClient.GetEntity(deviceID)
GetDeviceFetch(t) ==
    /\ frames[t].op = "GetDevice"
    /\ frames[t].pc = "fetch"
    /\ LET deviceID == frames[t].deviceID
           g == [frames[t] EXCEPT !.calls = Append(@, "GetEntity")]
       IN  \E answer \in GetEntityOutcomes(deviceID) :
              IF answer = "ok"
              THEN \E state \in EntityStates :
                      frames' = [frames EXCEPT ![t] =
                          [g EXCEPT !.fresh = Device(deviceID, state), !.pc = "lock",
                                    !.after = Pending \ {t}]]
              ELSE frames' = [frames EXCEPT ![t] =
                      [g EXCEPT !.pc = "returned", !.failed = TRUE,
                                !.err = Errorf(<<"device", "not", "found", ":", deviceID>>)]]
    /\ UNCHANGED <<deviceCache, lastUpdate, devicesMutex>>
    /\ UnchangedByRegistry

\* GetDevice once Lock() has returned: put the device in the map, Unlock, return it
GetDeviceStore(t) ==
    /\ frames[t].op = "GetDevice"
    /\ frames[t].pc = "locked"
    /\ devicesMutex.readers = 0
    /\ deviceCache' = MergeDevice(deviceCache, frames[t].deviceID, frames[t].fresh)
    /\ devicesMutex' = [devicesMutex EXCEPT !.writer = NoThread]
    /\ frames' = AfterStore(t, [frames[t] EXCEPT !.pc = "returned",
                                                  !.device = frames[t].fresh,
                                                  !.fresh = NoEntry])
    /\ UNCHANGED lastUpdate
    /\ UnchangedByRegistry

CallFindDevicesByName(t) ==
    /\ frames[t].pc = "idle"
    /\ CanRLock(devicesMutex)
    /\ \E name \in NameQueries :
          frames' = [frames EXCEPT ![t] =
              [IdleFrame EXCEPT !.op = "FindDevicesByName", !.name = name, !.pc = "returned",
                                !.result = FindDevicesByName(deviceCache, name)]]
    /\ UNCHANGED <<deviceCache, lastUpdate, devicesMutex>>
    /\ UnchangedByRegistry

CallFindDevicesByType(t) ==
    /\ frames[t].pc = "idle"
    /\ CanRLock(devicesMutex)
    /\ \E deviceType \in TypeQueries :
          frames' = [frames EXCEPT ![t] =
              [IdleFrame EXCEPT !.op = "FindDevicesByType", !.deviceType = deviceType,
                                !.pc = "returned",
                                !.result = FindDevicesByType(deviceCache, deviceType)]]
    /\ UNCHANGED <<deviceCache, lastUpdate, devicesMutex>>
    /\ UnchangedByRegistry

\* the call is over: the goroutine is free for the next one
ReturnRegistry(t) ==
    /\ frames[t].pc = "returned"
    /\ frames' = [frames EXCEPT ![t] = IdleFrame]
    /\ UNCHANGED <<deviceCache, lastUpdate, devicesMutex>>
    /\ UnchangedByRegistry

\* time passes, a freshness window at a time
Sleep ==
    /\ now + CacheTTL <= MaxSleeps * CacheTTL
    /\ now' = now + CacheTTL
    /\ UNCHANGED <<validatorVars, devices, callVars, isConnected, conversations, chat,
                   registryVars, storeVars, llmVars>>

\* a step of goroutine t inside the call it is in
ThreadStep(t) ==
    \/ (frames[t].pc # "idle" /\ RefreshDevices(t))
    \/ Lock(t)
    \/ RefreshDevicesStore(t)
    \/ GetAllDevicesAfterError(t)
    \/ GetAllDevicesCollect(t)
    \/ GetDeviceFetch(t)
    \/ GetDeviceStore(t)

NextRegistry ==
    \/ \E t \in Threads :
          \/ GetAllDevices(t)
          \/ RefreshDevices(t)
          \/ Lock(t)
          \/ RefreshDevicesStore(t)
          \/ GetAllDevicesAfterError(t)
          \/ GetAllDevicesCollect(t)
          \/ GetDeviceLookup(t)
          \/ GetDeviceFetch(t)
          \/ GetDeviceStore(t)
          \/ CallFindDevicesByName(t)
          \/ CallFindDevicesByType(t)
          \/ ReturnRegistry(t)
    \/ Sleep

SpecRegistry == InitRegistry /\ [][NextRegistry]_vars

-----------------------------------------------------------------------------
(* The conversation store on its own: one call at a time, each under m.mutex *)

InitStore ==
    /\ vAction = NilAction
    /\ vResult = NoResult
    /\ vDone = FALSE
    /\ devices = NewManager
    /\ op = NoOp
    /\ ret = NoError
    /\ pc = "idle"
    /\ trace = <<>>
    /\ isConnected = FALSE
    /\ conversations = EmptyStore
    /\ now = 0
    /\ chat = NoChat
    /\ deviceCache = EmptyCache
    /\ lastUpdate = ZeroTime
    /\ devicesMutex = Unlocked
    /\ frames = [t \in Threads |-> IdleFrame]
    /\ call = NoCall
    /\ storeMutex = Unlocked
    /\ workers = [t \in Threads |-> IdleWorker]
    /\ durable = EmptyDB
    /\ InitLLM

UnchangedByStore ==
    UNCHANGED <<validatorVars, devices, callVars, isConnected, now, chat, registryVars,
                storeMutex, workers, durable, llmVars>>

\* the ids the callers of the message operations pass
MessageIds == {FirstConv, NilUUID}

\* the conversations a caller hands to UpdateConversation under id: the one it got from
\* the store, that one with a message of any time appended, or one it built itself
UpdateArguments(convs, id) ==
    {NewConversation(t) : t \in 0..MaxClock}
    \cup (IF id \in Stored(convs) THEN {convs[id]} ELSE {})
    \cup (IF id \in Stored(convs) /\ Len(convs[id].Messages) < MaxStoreMessages
          THEN {[convs[id] EXCEPT !.Messages = Append(@, Message("user", MsgHello, t))] :
                    t \in 0..MaxClock}
          ELSE {})

\* the contexts UpdateContext is given
Contexts == {EmptyContext, [ReferencedDevices |-> <<"light.bedroom">>]}

\* the call as it stands when the operation begins
Begin(name, id) ==
    [NoCall EXCEPT !.name = name, !.id = id, !.at = now, !.before = conversations]

CallCreateConversation ==
    /\ call = NoCall
    /\ \E id \in StoreIds \ Stored(conversations) :
          /\ conversations' = CreateConversation(conversations, id, now)
          /\ call' = [Begin("CreateConversation", id) EXCEPT !.found = NewConversation(now)]
    /\ UnchangedByStore

CallGetConversation ==
    /\ call = NoCall
    /\ \E id \in StoreIds \cup {NilUUID} :
          LET r == GetConversation(conversations, id)
          IN  call' = [Begin("GetConversation", id) EXCEPT !.found = r.conv, !.err = r.err]
    /\ UNCHANGED conversations
    /\ UnchangedByStore

CallUpdateConversation ==
    /\ call = NoCall
    /\ \E id \in MessageIds :
       \E conv \in UpdateArguments(conversations, id) :
          LET r == UpdateConversation(conversations, id, conv, now)
          IN  /\ conversations' = r.convs
              /\ call' = [Begin("UpdateConversation", id) EXCEPT !.conv = conv, !.err = r.err]
    /\ UnchangedByStore

CallDeleteConversation ==
    /\ call = NoCall
    /\ \E id \in StoreIds \cup {NilUUID} :
          LET r == DeleteConversation(conversations, id)
          IN  /\ conversations' = r.convs
              /\ call' = [Begin("DeleteConversation", id) EXCEPT !.err = r.err]
    /\ UnchangedByStore

CallAddMessage ==
    /\ call = NoCall
    /\ \E id \in MessageIds, t \in 0..MaxClock :
          /\ id \in Stored(conversations) => Len(conversations[id].Messages) < MaxStoreMessages
          /\ LET message == Message("user", MsgHello, t)
                 r == AddMessage(conversations, id, message, now)
             IN  /\ conversations' = r.convs
                 /\ call' = [Begin("AddMessage", id) EXCEPT !.message = message,
                                                             !.err = r.err]
    /\ UnchangedByStore

CallUpdateContext ==
    /\ call = NoCall
    /\ \E id \in MessageIds, context \in Contexts :
          LET r == UpdateContext(conversations, id, context, now)
          IN  /\ conversations' = r.convs
              /\ call' = [Begin("UpdateContext", id) EXCEPT !.context = context,
                                                             !.err = r.err]
    /\ UnchangedByStore

CallGetRecentMessages ==
    /\ call = NoCall
    /\ \E id \in MessageIds, limit \in -1..(MaxStoreMessages + 1) :
          LET r == GetRecentMessages(conversations, id, limit)
          IN  call' = [Begin("GetRecentMessages", id) EXCEPT !.limit = limit,
                           !.messages = r.messages, !.err = r.err, !.panicked = r.panicked]
    /\ UNCHANGED conversations
    /\ UnchangedByStore

CallCleanupOldConversations ==
    /\ call = NoCall
    /\ \E maxAge \in 0..MaxClock :
          LET r == CleanupOldConversations(conversations, maxAge, now)
          IN  /\ conversations' = r.convs
              /\ call' = [Begin("CleanupOldConversations", NilUUID) EXCEPT
                              !.maxAge = maxAge, !.deleted = r.deleted]
    /\ UnchangedByStore

ReturnStore ==
    /\ call # NoCall
    /\ call' = NoCall
    /\ UNCHANGED conversations
    /\ UnchangedByStore

\* time passes between the calls
StoreTick ==
    /\ call = NoCall
    /\ Tick

NextStore ==
    \/ CallCreateConversation
    \/ CallGetConversation
    \/ CallUpdateConversation
    \/ CallDeleteConversation
    \/ CallAddMessage
    \/ CallUpdateContext
    \/ CallGetRecentMessages
    \/ CallCleanupOldConversations
    \/ ReturnStore
    \/ StoreTick

SpecStore == InitStore /\ [][NextStore]_vars

-----------------------------------------------------------------------------
(* The conversation store under concurrent callers: AddMessage and            *)
(* GetConversation step by step, each between its Lock/RLock and its unlock   *)

\* the k-th message of goroutine t, as TestConcurrentAccess builds it: each has its own ID
NumberedMessage(t, k) ==
    Message("user", <<t, "#", <<"0", "1", "2", "3", "4">>[k + 1]>>, now)

\* NewManager() and one CreateConversation(), then the goroutines start
InitConcurrent ==
    /\ vAction = NilAction
    /\ vResult = NoResult
    /\ vDone = FALSE
    /\ devices = NewManager
    /\ op = NoOp
    /\ ret = NoError
    /\ pc = "idle"
    /\ trace = <<>>
    /\ isConnected = FALSE
    /\ conversations = CreateConversation(EmptyStore, FirstConv, 0)
    /\ now = 0
    /\ chat = NoChat
    /\ deviceCache = EmptyCache
    /\ lastUpdate = ZeroTime
    /\ devicesMutex = Unlocked
    /\ frames = [t \in Threads |-> IdleFrame]
    /\ call = NoCall
    /\ storeMutex = Unlocked
    /\ workers = [t \in Threads |-> IdleWorker]
    /\ durable = EmptyDB
    /\ InitLLM

UnchangedByWorkers ==
    UNCHANGED <<validatorVars, devices, callVars, isConnected, now, chat, registryVars, call,
                durable, llmVars>>

\* AddMessage is called and m.mutex.Lock() returns
AddMessageLock(t) ==
    /\ workers[t].pc = "idle"
    /\ Len(workers[t].added) < MaxAdds
    /\ CanLock(storeMutex)
    /\ storeMutex' = [storeMutex EXCEPT !.writer = t]
    /\ workers' = [workers EXCEPT ![t].op = "AddMessage", ![t].pc = "lookup",
                       ![t].message = NumberedMessage(t, Len(workers[t].added) + 1)]
    /\ UNCHANGED conversations
    /\ UnchangedByWorkers

\* conv, exists := m.conversations[conversationID], and the operand of append
AddMessageLookup(t) ==
    /\ workers[t].op = "AddMessage" /\ workers[t].pc = "lookup"
    /\ workers' = [workers EXCEPT
          ![t].exists = FirstConv \in Stored(conversations),
          ![t].messages = conversations[FirstConv].Messages,
          ![t].err = IF FirstConv \in Stored(conversations)
                     THEN NoError ELSE ConversationNotFound(FirstConv),
          ![t].pc = IF FirstConv \in Stored(conversations) THEN "append" ELSE "unlock"]
    /\ UNCHANGED <<conversations, storeMutex>>
    /\ UnchangedByWorkers

\* conv.Messages = append(...); conv.UpdatedAt = time.Now()
AddMessageAppend(t) ==
    /\ workers[t].op = "AddMessage" /\ workers[t].pc = "append"
    /\ conversations' = [conversations EXCEPT
          ![FirstConv].Messages = Append(workers[t].messages, workers[t].message),
          ![FirstConv].UpdatedAt = now]
    /\ workers' = [workers EXCEPT ![t].pc = "unlock"]
    /\ UNCHANGED storeMutex
    /\ UnchangedByWorkers

\* the deferred m.mutex.Unlock(), and the return of AddMessage
AddMessageUnlock(t) ==
    /\ workers[t].op = "AddMessage" /\ workers[t].pc = "unlock"
    /\ storeMutex' = [storeMutex EXCEPT !.writer = NoThread]
    /\ workers' = [workers EXCEPT ![t].pc = "idle", ![t].op = "",
                       ![t].messages = <<>>, ![t].message = IdleWorker.message,
                       ![t].added = IF workers[t].err = NoError
                                    THEN Append(@, workers[t].message) ELSE @]
    /\ UNCHANGED conversations
    /\ UnchangedByWorkers

\* GetConversation is called and m.mutex.RLock() returns
GetConversationRLock(t) ==
    /\ workers[t].pc = "idle"
    /\ workers[t].gets < MaxAdds
    /\ storeMutex.writer = NoThread
    /\ storeMutex' = [storeMutex EXCEPT !.readers = @ + 1]
    /\ workers' = [workers EXCEPT ![t].op = "GetConversation", ![t].pc = "rlocked"]
    /\ UNCHANGED conversations
    /\ UnchangedByWorkers

\* the lookup, the deferred m.mutex.RUnlock(), and the return of GetConversation
GetConversationRUnlock(t) ==
    /\ workers[t].op = "GetConversation" /\ workers[t].pc = "rlocked"
    /\ storeMutex' = [storeMutex EXCEPT !.readers = @ - 1]
    /\ workers' = [workers EXCEPT ![t].pc = "idle", ![t].op = "", ![t].gets = @ + 1,
                       ![t].found = GetConversation(conversations, FirstConv).conv]
    /\ UNCHANGED conversations
    /\ UnchangedByWorkers

NextConcurrent ==
    \E t \in Threads :
        \/ AddMessageLock(t)
        \/ AddMessageLookup(t)
        \/ AddMessageAppend(t)
        \/ AddMessageUnlock(t)
        \/ GetConversationRLock(t)
        \/ GetConversationRUnlock(t)

SpecConcurrent == InitConcurrent /\ [][NextConcurrent]_vars

-----------------------------------------------------------------------------
(* internal/api/handlers.go: HandleChat in several goroutines on the one      *)
(* conversation, step by step; GetConversation hands out the pointer kept in  *)
(* the map, so conv.Messages of the handler is the stored message list        *)

\* the assistant message of the turn that sent userMessage
AssistantMessage(userMessage) ==
    Message("assistant", userMessage.Content, userMessage.Timestamp)

\* GetConversation(req.ConversationID), whole: RLock, lookup, RUnlock
TurnGetConversation(t) ==
    /\ workers[t].pc = "idle"
    /\ workers[t].gets < MaxAdds
    /\ CanRLock(storeMutex)
    /\ LET r == GetConversation(conversations, FirstConv)
       IN  workers' = [workers EXCEPT
              ![t].op = "HandleChat",
              ![t].exists = r.err = NoError,
              ![t].err = r.err,
              ![t].gets = @ + 1,
              ![t].message = NumberedMessage(t, workers[t].gets + 1),
              ![t].pc = IF r.err = NoError THEN "readMessages" ELSE "idle"]
    /\ UNCHANGED <<conversations, storeMutex>>
    /\ UnchangedByWorkers

\* the operand of `append(conv.Messages, ...)` is read, with no lock held
TurnReadMessages(t) ==
    /\ workers[t].op = "HandleChat" /\ workers[t].pc = "readMessages"
    /\ workers' = [workers EXCEPT ![t].messages = conversations[FirstConv].Messages,
                                  ![t].pc = "append"]
    /\ UNCHANGED <<conversations, storeMutex>>
    /\ UnchangedByWorkers

\* `conv.Messages = append(...)` is written, with no lock held: first the user message,
\* and after ProcessMessage the assistant message
TurnAppend(t) ==
    /\ workers[t].op = "HandleChat" /\ workers[t].pc = "append"
    /\ conversations' = [conversations EXCEPT
          ![FirstConv].Messages = Append(workers[t].messages, workers[t].message)]
    /\ workers' = [workers EXCEPT
          ![t].messages = <<>>,
          ![t].pc = IF workers[t].message.Role = "user" THEN "process" ELSE "update"]
    /\ UNCHANGED storeMutex
    /\ UnchangedByWorkers

\* ProcessMessage returns: an error ends the turn with 500, a reply goes on to the
\* assistant message
TurnProcessMessage(t) ==
    /\ workers[t].op = "HandleChat" /\ workers[t].pc = "process"
    /\ \E failed \in BOOLEAN :
          workers' = [workers EXCEPT ![t] =
              IF failed
              THEN [IdleWorker EXCEPT !.added = workers[t].added, !.gets = workers[t].gets]
              ELSE [workers[t] EXCEPT
                      !.added = Append(@, workers[t].message),
                      !.message = AssistantMessage(workers[t].message),
                      !.pc = "readMessages"]]
    /\ UNCHANGED <<conversations, storeMutex>>
    /\ UnchangedByWorkers

\* UpdateConversation(conv) is called and m.mutex.Lock() returns
TurnUpdateLock(t) ==
    /\ workers[t].op = "HandleChat" /\ workers[t].pc = "update"
    /\ CanLock(storeMutex)
    /\ storeMutex' = [storeMutex EXCEPT !.writer = t]
    /\ workers' = [workers EXCEPT ![t].pc = "store"]
    /\ UNCHANGED conversations
    /\ UnchangedByWorkers

\* UpdateConversation under the lock: conv is the stored object itself, so the map
\* keeps its entry and only UpdatedAt changes; the deferred Unlock; the answer 200
TurnUpdateStore(t) ==
    /\ workers[t].op = "HandleChat" /\ workers[t].pc = "store"
    /\ conversations' = UpdateConversation(conversations, FirstConv,
                                           conversations[FirstConv], now).convs
    /\ storeMutex' = [storeMutex EXCEPT !.writer = NoThread]
    /\ workers' = [workers EXCEPT ![t] =
          [IdleWorker EXCEPT !.added = Append(workers[t].added, workers[t].message),
                             !.gets = workers[t].gets]]
    /\ UnchangedByWorkers

NextTurns ==
    \E t \in Threads :
        \/ TurnGetConversation(t)
        \/ TurnReadMessages(t)
        \/ TurnAppend(t)
        \/ TurnProcessMessage(t)
        \/ TurnUpdateLock(t)
        \/ TurnUpdateStore(t)

SpecTurns == InitConcurrent /\ [][NextTurns]_vars

-----------------------------------------------------------------------------
(* The conversation store with persistence: one call at a time on a Manager   *)
(* built by NewManagerWithDB, and new Managers built over the same file       *)

\* NewManagerWithDB on a new file
InitPersistent ==
    /\ vAction = NilAction
    /\ vResult = NoResult
    /\ vDone = FALSE
    /\ devices = NewManager
    /\ op = NoOp
    /\ ret = NoError
    /\ pc = "idle"
    /\ trace = <<>>
    /\ isConnected = FALSE
    /\ conversations = EmptyStore
    /\ now = 0
    /\ chat = NoChat
    /\ deviceCache = EmptyCache
    /\ lastUpdate = ZeroTime
    /\ devicesMutex = Unlocked
    /\ frames = [t \in Threads |-> IdleFrame]
    /\ call = NoCall
    /\ storeMutex = Unlocked
    /\ workers = [t \in Threads |-> IdleWorker]
    \* the file is new; the library it is opened with enforces foreign keys or not
    /\ durable \in {[EmptyDB EXCEPT !.foreign_keys = enforced] : enforced \in BOOLEAN}
    /\ InitLLM

UnchangedByPersistent ==
    UNCHANGED <<validatorVars, devices, callVars, isConnected, now, chat, registryVars,
                storeMutex, workers, llmVars>>

\* the message IDs neither the conversation in memory nor the file holds
FreshKeys ==
    {k \in MessageKeys :
        /\ ~durable.messages[k].present
        /\ \A id \in Stored(conversations) : k \notin IDsOf(conversations[id].Messages)}

\* the messages a caller can make next: uuid.New() gives an ID not seen before; the
\* caller sets the timestamp, to the earliest or the latest time
NewMessages ==
    {MessageWithID(k, t) : k \in {j \in FreshKeys : \A i \in FreshKeys : j <= i},
                           t \in {0, MaxClock}}

\* the conversations a caller hands to UpdateConversation under id: the one it got from
\* the store, that one with a new message appended, or one it built itself
UpdateArgumentsWithDB(id) ==
    {NewConversation(now)}
    \cup (IF id \in Stored(conversations) THEN {conversations[id]} ELSE {})
    \cup (IF id \in Stored(conversations)
             /\ Len(conversations[id].Messages) < MaxStoreMessages
          THEN {[conversations[id] EXCEPT !.Messages = Append(@, m)] : m \in NewMessages}
          ELSE {})

CreateWithDB ==
    /\ call = NoCall
    /\ \E id \in StoreIds \ Stored(conversations) :
          /\ ~durable.conversations[id].exists
          /\ conversations' = CreateConversation(conversations, id, now)
          /\ call' = [Begin("CreateConversation", id) EXCEPT !.found = NewConversation(now)]
    /\ UNCHANGED durable
    /\ UnchangedByPersistent

\* UpdateConversation, the one operation that saves; the save commits or fails
UpdateWithDB ==
    /\ call = NoCall
    /\ \E conv \in UpdateArgumentsWithDB(FirstConv), saveFails \in BOOLEAN :
          LET r == UpdateConversationWithDB(conversations, durable, FirstConv, conv, now,
                                            saveFails)
          IN  /\ conversations' = r.convs
              /\ durable' = r.db
              /\ call' = [Begin("UpdateConversation", FirstConv) EXCEPT
                              !.conv = conv, !.err = r.err, !.saved = r.saved]
    /\ UnchangedByPersistent

AddMessageWithDB ==
    /\ call = NoCall
    /\ FirstConv \in Stored(conversations)
          => Len(conversations[FirstConv].Messages) < MaxStoreMessages
    /\ \E message \in NewMessages :
          LET r == AddMessage(conversations, FirstConv, message, now)
          IN  /\ conversations' = r.convs
              /\ call' = [Begin("AddMessage", FirstConv) EXCEPT !.message = message,
                                                                   !.err = r.err]
    /\ UNCHANGED durable
    /\ UnchangedByPersistent

DeleteWithDB ==
    /\ call = NoCall
    /\ \E id \in StoreIds :
          LET r == DeleteConversation(conversations, id)
          IN  /\ conversations' = r.convs
              /\ call' = [Begin("DeleteConversation", id) EXCEPT !.err = r.err]
    /\ UNCHANGED durable
    /\ UnchangedByPersistent

CleanupWithDB ==
    /\ call = NoCall
    /\ \E maxAge \in 0..MaxClock :
          LET r == CleanupOldConversations(conversations, maxAge, now)
          IN  /\ conversations' = r.convs
              /\ call' = [Begin("CleanupOldConversations", NilUUID) EXCEPT
                              !.maxAge = maxAge, !.deleted = r.deleted]
    /\ UNCHANGED durable
    /\ UnchangedByPersistent

\* DB.GetConversation on the file
CallDBGetConversation ==
    /\ call = NoCall
    /\ \E id \in StoreIds :
          IF DBGetConversation(durable, id) = {}
          THEN call' = [Begin("DB.GetConversation", id) EXCEPT
                            !.err = ConversationNotFound(id)]
          ELSE \E conv \in DBGetConversation(durable, id) :
                  call' = [Begin("DB.GetConversation", id) EXCEPT !.found = conv]
    /\ UNCHANGED <<conversations, durable>>
    /\ UnchangedByPersistent

\* the process ends and NewManagerWithDB builds a Manager over the same file; a load that
\* fails is logged and leaves the map empty
NewManagerWithDB ==
    /\ call = NoCall
    /\ \E loadFails \in BOOLEAN :
          IF loadFails
          THEN /\ conversations' = EmptyStore
               /\ call' = [Begin("NewManagerWithDB", NilUUID) EXCEPT !.saved = "failed"]
          ELSE /\ conversations' \in LoadConversationsFromDB(durable)
               /\ call' = [Begin("NewManagerWithDB", NilUUID) EXCEPT !.saved = "ok"]
    /\ UNCHANGED durable
    /\ UnchangedByPersistent

ReturnWithDB ==
    /\ call # NoCall
    /\ call' = NoCall
    /\ UNCHANGED <<conversations, durable>>
    /\ UnchangedByPersistent

NextPersistent ==
    \/ CreateWithDB
    \/ UpdateWithDB
    \/ AddMessageWithDB
    \/ DeleteWithDB
    \/ CleanupWithDB
    \/ CallDBGetConversation
    \/ NewManagerWithDB
    \/ ReturnWithDB
    \/ StoreTick

SpecPersistent == InitPersistent /\ [][NextPersistent]_vars

-----------------------------------------------------------------------------
(* llm.Service over LocalBackend: goroutines calling LoadModel, UnloadModel  *)
(* and ProcessMessage, step by step                                          *)

InitBackend ==
    /\ vAction = NilAction
    /\ vResult = NoResult
    /\ vDone = FALSE
    /\ InitCommon

UnchangedByCallers ==
    UNCHANGED <<validatorVars, devices, callVars, chatVars, registryVars, storeVars, turn>>

ModelNotLoaded == Errorf(<<"model", "not", "loaded">>)
ModelFileNotFound == Errorf(<<"model", "file", "not", "found">>)

\* "failed to generate response: %w"
FailedToGenerate(cause) ==
    [msg |-> <<"failed", "to", "generate", "response">>, cause |-> cause.msg]

\* LocalBackend.LoadModel sets isLoaded once os.Stat has found the model file
LoadedAfterLoadMutant(loaded, found) == TRUE
LoadedAfterLoad(loaded, found) == IF found THEN TRUE ELSE loaded

\* a goroutine calls an operation of the Service
CallService(t) ==
    /\ callers[t].pc = "idle"
    /\ \E name \in {"LoadModel", "UnloadModel", "ProcessMessage"} :
          callers' = [callers EXCEPT ![t] = [IdleCaller EXCEPT !.op = name, !.pc = "lock"]]
    /\ UNCHANGED <<isLoaded, backendMutex, serviceMutex>>
    /\ UnchangedByCallers

\* Service.LoadModel and Service.UnloadModel: s.mutex.Lock() returns
ServiceLock(t) ==
    /\ callers[t].pc = "lock"
    /\ callers[t].op \in {"LoadModel", "UnloadModel"}
    /\ CanLock(serviceMutex)
    /\ serviceMutex' = [serviceMutex EXCEPT !.writer = t]
    /\ callers' = [callers EXCEPT ![t].pc = "backend"]
    /\ UNCHANGED <<isLoaded, backendMutex>>
    /\ UnchangedByCallers

\* LocalBackend.LoadModel, whole: it holds b.mutex from its first line to its return
BackendLoadModel(t) ==
    /\ callers[t].pc = "backend"
    /\ callers[t].op = "LoadModel"
    /\ CanLock(backendMutex)
    /\ \E found \in BOOLEAN :
          /\ isLoaded' = LoadedAfterLoad(isLoaded, found)
          /\ callers' = [callers EXCEPT
                ![t].pc = "unlock",
                ![t].err = IF found THEN NoError ELSE ModelFileNotFound]
    /\ UNCHANGED <<backendMutex, serviceMutex>>
    /\ UnchangedByCallers

\* LocalBackend.UnloadModel, whole
BackendUnloadModel(t) ==
    /\ callers[t].pc = "backend"
    /\ callers[t].op = "UnloadModel"
    /\ CanLock(backendMutex)
    /\ isLoaded' = FALSE
    /\ callers' = [callers EXCEPT ![t].pc = "unlock"]
    /\ UNCHANGED <<backendMutex, serviceMutex>>
    /\ UnchangedByCallers

\* the deferred s.mutex.Unlock() of LoadModel and UnloadModel
ServiceUnlock(t) ==
    /\ callers[t].pc = "unlock"
    /\ callers[t].op \in {"LoadModel", "UnloadModel"}
    /\ serviceMutex' = [serviceMutex EXCEPT !.writer = NoThread]
    /\ callers' = [callers EXCEPT ![t].pc = "returned"]
    /\ UNCHANGED <<isLoaded, backendMutex>>
    /\ UnchangedByCallers

\* Service.ProcessMessage: s.mutex.RLock() returns
ProcessMessageRLock(t) ==
    /\ callers[t].pc = "lock"
    /\ callers[t].op = "ProcessMessage"
    /\ CanRLock(serviceMutex)
    /\ serviceMutex' = [serviceMutex EXCEPT !.readers = @ + 1]
    /\ callers' = [callers EXCEPT ![t].pc = "isLoaded"]
    /\ UNCHANGED <<isLoaded, backendMutex>>
    /\ UnchangedByCallers

\* `if !s.backend.IsLoaded()`: LocalBackend.IsLoaded, whole, and the early return
ProcessMessageIsLoaded(t) ==
    /\ callers[t].pc = "isLoaded"
    /\ CanRLock(backendMutex)
    /\ callers' = [callers EXCEPT
          ![t].loaded = isLoaded,
          ![t].err = IF isLoaded THEN NoError ELSE ModelNotLoaded,
          ![t].pc = IF isLoaded THEN "generate" ELSE "runlock"]
    /\ UNCHANGED <<isLoaded, backendMutex, serviceMutex>>
    /\ UnchangedByCallers

\* LocalBackend.GenerateResponse: b.mutex.RLock() returns, and `if !b.isLoaded`
GenerateResponseRLock(t) ==
    /\ callers[t].pc = "generate"
    /\ CanRLock(backendMutex)
    /\ IF isLoaded
       THEN /\ backendMutex' = [backendMutex EXCEPT !.readers = @ + 1]
            /\ callers' = [callers EXCEPT ![t].pc = "generating"]
       ELSE /\ callers' = [callers EXCEPT
                  ![t].err = FailedToGenerate(ModelNotLoaded), ![t].pc = "runlock"]
            /\ UNCHANGED backendMutex
    /\ UNCHANGED <<isLoaded, serviceMutex>>
    /\ UnchangedByCallers

\* generateWithLlamaCpp returns, and the deferred b.mutex.RUnlock(); parseResponse
\* gives the reply
GenerateResponseReturn(t) ==
    /\ callers[t].pc = "generating"
    /\ backendMutex' = [backendMutex EXCEPT !.readers = @ - 1]
    /\ callers' = [callers EXCEPT ![t].response = Reply.Unsure, ![t].pc = "runlock"]
    /\ UNCHANGED <<isLoaded, serviceMutex>>
    /\ UnchangedByCallers

\* the deferred s.mutex.RUnlock() of ProcessMessage
ProcessMessageRUnlock(t) ==
    /\ callers[t].pc = "runlock"
    /\ serviceMutex' = [serviceMutex EXCEPT !.readers = @ - 1]
    /\ callers' = [callers EXCEPT ![t].pc = "returned"]
    /\ UNCHANGED <<isLoaded, backendMutex>>
    /\ UnchangedByCallers

\* the caller has the result
ReturnService(t) ==
    /\ callers[t].pc = "returned"
    /\ callers' = [callers EXCEPT ![t] = IdleCaller]
    /\ UNCHANGED <<isLoaded, backendMutex, serviceMutex>>
    /\ UnchangedByCallers

NextBackend ==
    \E t \in Threads :
        \/ CallService(t)
        \/ ServiceLock(t)
        \/ BackendLoadModel(t)
        \/ BackendUnloadModel(t)
        \/ ServiceUnlock(t)
        \/ ProcessMessageRLock(t)
        \/ ProcessMessageIsLoaded(t)
        \/ GenerateResponseRLock(t)
        \/ GenerateResponseReturn(t)
        \/ ProcessMessageRUnlock(t)
        \/ ReturnService(t)

SpecBackend == InitBackend /\ [][NextBackend]_vars

-----------------------------------------------------------------------------
(* The interpreters of the backend's text, each applied to any message, any  *)
(* backend state and any text the backend can answer                         *)

\* {"response": "On.", "actions": [{"action": "turn_on", "device_type": "light", "parameters": {}}]}
JsonTurnOn ==
    <<"{", "\"", "r", "e", "s", "p", "o", "n", "s", "e", "\"", ":", " ", "\"",
      "O", "n", ".", "\"", ",", " ", "\"", "a", "c", "t", "i", "o", "n", "s",
      "\"", ":", " ", "[", "{", "\"", "a", "c", "t", "i", "o", "n", "\"", ":",
      " ", "\"", "t", "u", "r", "n", "_", "o", "n", "\"", ",", " ", "\"", "d",
      "e", "v", "i", "c", "e", "_", "t", "y", "p", "e", "\"", ":", " ", "\"",
      "l", "i", "g", "h", "t", "\"", ",", " ", "\"", "p", "a", "r", "a", "m",
      "e", "t", "e", "r", "s", "\"", ":", " ", "{", "}", "}", "]", "}">>

\* {\n\t"understanding": "Adjust",\n\t"response": "Setting both",\n\t"actions": [\n\t\t{"action": "set_temperature", "parameters": {"temperature": 22}},\n\t\t{"action": "set_brightness", "parameters": {"brightness": 191}}\n\t],\n\t"confidence": 0.92\n}
JsonTwoActions ==
    <<"{", "\n", "\t", "\"", "u", "n", "d", "e", "r", "s", "t", "a", "n", "d",
      "i", "n", "g", "\"", ":", " ", "\"", "A", "d", "j", "u", "s", "t", "\"",
      ",", "\n", "\t", "\"", "r", "e", "s", "p", "o", "n", "s", "e", "\"",
      ":", " ", "\"", "S", "e", "t", "t", "i", "n", "g", " ", "b", "o", "t",
      "h", "\"", ",", "\n", "\t", "\"", "a", "c", "t", "i", "o", "n", "s",
      "\"", ":", " ", "[", "\n", "\t", "\t", "{", "\"", "a", "c", "t", "i",
      "o", "n", "\"", ":", " ", "\"", "s", "e", "t", "_", "t", "e", "m", "p",
      "e", "r", "a", "t", "u", "r", "e", "\"", ",", " ", "\"", "p", "a", "r",
      "a", "m", "e", "t", "e", "r", "s", "\"", ":", " ", "{", "\"", "t", "e",
      "m", "p", "e", "r", "a", "t", "u", "r", "e", "\"", ":", " ", "2", "2",
      "}", "}", ",", "\n", "\t", "\t", "{", "\"", "a", "c", "t", "i", "o",
      "n", "\"", ":", " ", "\"", "s", "e", "t", "_", "b", "r", "i", "g", "h",
      "t", "n", "e", "s", "s", "\"", ",", " ", "\"", "p", "a", "r", "a", "m",
      "e", "t", "e", "r", "s", "\"", ":", " ", "{", "\"", "b", "r", "i", "g",
      "h", "t", "n", "e", "s", "s", "\"", ":", " ", "1", "9", "1", "}", "}",
      "\n", "\t", "]", ",", "\n", "\t", "\"", "c", "o", "n", "f", "i", "d",
      "e", "n", "c", "e", "\"", ":", " ", "0", ".", "9", "2", "\n", "}">>

\* {"response": "Testing", "actions": []}
JsonNoActions ==
    <<"{", "\"", "r", "e", "s", "p", "o", "n", "s", "e", "\"", ":", " ", "\"",
      "T", "e", "s", "t", "i", "n", "g", "\"", ",", " ", "\"", "a", "c", "t",
      "i", "o", "n", "s", "\"", ":", " ", "[", "]", "}">>

\* {"actions":[{"action":"turn_on","device_type":"light","parameters":{}}],"response":"I'll turn on the lights for you."}
JsonSmartTurnOn ==
    <<"{", "\"", "a", "c", "t", "i", "o", "n", "s", "\"", ":", "[", "{", "\"",
      "a", "c", "t", "i", "o", "n", "\"", ":", "\"", "t", "u", "r", "n", "_",
      "o", "n", "\"", ",", "\"", "d", "e", "v", "i", "c", "e", "_", "t", "y",
      "p", "e", "\"", ":", "\"", "l", "i", "g", "h", "t", "\"", ",", "\"",
      "p", "a", "r", "a", "m", "e", "t", "e", "r", "s", "\"", ":", "{", "}",
      "}", "]", ",", "\"", "r", "e", "s", "p", "o", "n", "s", "e", "\"", ":",
      "\"", "I", "'", "l", "l", " ", "t", "u", "r", "n", " ", "o", "n", " ",
      "t", "h", "e", " ", "l", "i", "g", "h", "t", "s", " ", "f", "o", "r",
      " ", "y", "o", "u", ".", "\"", "}">>

\* {"Response": "Hi", "ACTIONS": null}
JsonFolded ==
    <<"{", "\"", "R", "e", "s", "p", "o", "n", "s", "e", "\"", ":", " ", "\"",
      "H", "i", "\"", ",", " ", "\"", "A", "C", "T", "I", "O", "N", "S", "\"",
      ":", " ", "n", "u", "l", "l", "}">>

\* {}
JsonNoFields ==
    <<"{", "}">>

\* {"actions": [{"action": "turn_off"}]}
JsonOnlyActions ==
    <<"{", "\"", "a", "c", "t", "i", "o", "n", "s", "\"", ":", " ", "[", "{",
      "\"", "a", "c", "t", "i", "o", "n", "\"", ":", " ", "\"", "t", "u", "r",
      "n", "_", "o", "f", "f", "\"", "}", "]", "}">>

\* {"response": "On", "actions": [}
JsonMalformed ==
    <<"{", "\"", "r", "e", "s", "p", "o", "n", "s", "e", "\"", ":", " ", "\"",
      "O", "n", "\"", ",", " ", "\"", "a", "c", "t", "i", "o", "n", "s", "\"",
      ":", " ", "[", "}">>

\* {"response": 5, "actions": []}
JsonMistyped ==
    <<"{", "\"", "r", "e", "s", "p", "o", "n", "s", "e", "\"", ":", " ", "5",
      ",", " ", "\"", "a", "c", "t", "i", "o", "n", "s", "\"", ":", " ", "[",
      "]", "}">>

\* Sure! {"response": "Ok"} Done.
JsonAfterProse ==
    <<"S", "u", "r", "e", "!", " ", "{", "\"", "r", "e", "s", "p", "o", "n",
      "s", "e", "\"", ":", " ", "\"", "O", "k", "\"", "}", " ", "D", "o", "n",
      "e", ".">>

\* null
TextNull ==
    <<"n", "u", "l", "l">>

\*  Say {name} to begin. 
TextBraces ==
    <<" ", "S", "a", "y", " ", "{", "n", "a", "m", "e", "}", " ", "t", "o",
      " ", "b", "e", "g", "i", "n", ".", " ">>

\* I will turn on the light and dim it.
TextOnAndDim ==
    <<"I", " ", "w", "i", "l", "l", " ", "t", "u", "r", "n", " ", "o", "n",
      " ", "t", "h", "e", " ", "l", "i", "g", "h", "t", " ", "a", "n", "d",
      " ", "d", "i", "m", " ", "i", "t", ".">>

\* the user's messages
TurnMessages == {MsgTurnOnBedroomLights, MsgDimTheLights, MsgHello}

\* texts a backend answers: JSON objects, broken ones, prose, and nothing but blanks
BackendTexts ==
    {JsonTurnOn, JsonTwoActions, JsonNoActions, JsonSmartTurnOn, JsonFolded, JsonNoFields,
     JsonOnlyActions, JsonMalformed, JsonMistyped, JsonAfterProse, TextNull, TextBraces,
     TextOnAndDim, GenTurningOn, GenOffAndDim, GenGreeting, <<" ", "\n">>}

\* the well-formed payloads that carry a reply and actions
ActionPayloads == {JsonTurnOn, JsonTwoActions, JsonNoActions, JsonSmartTurnOn}

\* the language tags of a code fence: none, or json
FenceTags == {<<>>, <<"j", "s", "o", "n">>}

\* the character U+0060, the backquote, which no TLA+ string holds
Backquote == "U+0060"

\* a code fence around the payload: three backquotes and the tag, a newline, the
\* payload, a newline and three backquotes
Fenced(payload, tag) ==
    <<Backquote, Backquote, Backquote>> \o tag \o <<"\n">> \o payload
        \o <<"\n", Backquote, Backquote, Backquote>>

\* the text is no JSON object for parseResponse, cleaned as parseResponse cleans it
NotStructured(text) == Unmarshal(ToLastBrace(FromFirstBrace(TrimSpace(text)))).err

NoPlain == [response |-> <<>>, actions |-> <<>>]

Interpreted(name, loaded, message, failed, text, tag, result, plain) ==
    [done |-> TRUE, op |-> name, loaded |-> loaded, message |-> message, failed |-> failed,
     text |-> text, tag |-> tag, err |-> result.err, response |-> result.response,
     actions |-> result.actions, plain |-> plain]

InitInterpreter ==
    /\ vAction = NilAction
    /\ vResult = NoResult
    /\ vDone = FALSE
    /\ InitCommon

UnchangedByInterpreter ==
    UNCHANGED <<validatorVars, devices, callVars, chatVars, registryVars, storeVars,
                isLoaded, backendMutex, serviceMutex, callers>>

\* ProcessMessage of the Service over LocalBackend
InterpretWithBackend ==
    /\ ~turn.done
    /\ \E loaded \in BOOLEAN, message \in TurnMessages, text \in BackendTexts :
          \E result \in {ProcessMessageWithBackend(loaded, message, text)} :
              turn' = Interpreted("ProcessMessageWithBackend", loaded, message, FALSE, text,
                                  <<>>, result, NoPlain)
    /\ UnchangedByInterpreter

\* ProcessMessage of the Service that talks to Ollama: the request fails, or answers
InterpretWithOllama ==
    /\ ~turn.done
    /\ \E connected \in BOOLEAN, message \in TurnMessages, text \in BackendTexts,
          failed \in BOOLEAN :
          \E result \in {ProcessMessage(connected, message,
                                         IF failed THEN GenerationFailed
                                         ELSE Generated(text))} :
              turn' = Interpreted("ProcessMessage", connected, message, failed, text, <<>>,
                                  result, NoPlain)
    /\ UnchangedByInterpreter

\* parseResponse of a payload inside a code fence, and of the payload alone
ParseFenced ==
    /\ ~turn.done
    /\ \E payload \in ActionPayloads, tag \in FenceTags :
          \E fenced \in {parseResponse(Fenced(payload, tag))},
             plain \in {parseResponse(payload)} :
              turn' = Interpreted("parseResponse", TRUE, <<>>, FALSE, payload, tag, fenced,
                                  [response |-> plain.response, actions |-> plain.actions])
    /\ UnchangedByInterpreter

\* the caller has the result
ReturnTurn ==
    /\ turn.done
    /\ turn' = NoTurn
    /\ UnchangedByInterpreter

NextInterpreter ==
    \/ InterpretWithBackend
    \/ InterpretWithOllama
    \/ ParseFenced
    \/ ReturnTurn

SpecInterpreter == InitInterpreter /\ [][NextInterpreter]_vars

-----------------------------------------------------------------------------
(* Claims about the validator, checked under SpecValidator *)

Words(text) == {text[i] : i \in 1..Len(text)}

SafeActionPresent == ~vResult.SafeAction.nil

\* the parameter a range-checked action requires
RequiredParam(name) ==
    CASE name = "set_brightness" -> "brightness"
      [] name = "set_temperature" -> "temperature"
      [] name = "set_color_temp" -> "color_temp"
      [] name = "set_humidity" -> "humidity"

RangeCheckedNames == {"set_brightness", "set_temperature", "set_color_temp", "set_humidity"}

\* the call was name(key: a float64 or an int)
CalledWithNumber(name) ==
    /\ vDone
    /\ ~vAction.nil
    /\ vAction.Action = name
    /\ ~vAction.ParamsNil
    /\ vAction.Parameters[RequiredParam(name)].t \in {"float64", "int"}

\* the number passed, in halves
PassedHalves(name) == vAction.Parameters[RequiredParam(name)].n

\* C2: whatever ValidateAction is given (a nil action, an unknown name, a missing,
\* wrong-typed, in-range or out-of-range parameter), the result carries a
\* SafeAction exactly when it is valid.
C2_SafeActionIffValid ==
    vDone => (SafeActionPresent <=> vResult.Valid)

C2_Witness ==
    /\ CalledWithNumber("set_brightness")
    /\ PassedHalves("set_brightness") = 600
    /\ ~vResult.Valid
    /\ ~SafeActionPresent

C5_UnknownOrMalformedRejected ==
    (vDone /\ ~vAction.nil) =>
        /\ vAction.Action \notin ValidatedNames =>
              /\ ~vResult.Valid
              /\ "unknown" \in Words(vResult.Error)
              /\ vAction.Action \in Words(vResult.Error)
        /\ (/\ vAction.Action \in RangeCheckedNames
            /\ \/ vAction.ParamsNil
               \/ vAction.Parameters[RequiredParam(vAction.Action)].t \notin {"float64", "int"})
           => /\ ~vResult.Valid
              /\ RequiredParam(vAction.Action) \in Words(vResult.Error)

C5_Witness ==
    /\ vDone
    /\ vAction.Action = "set_humidity"
    /\ ~vAction.ParamsNil
    /\ vAction.Parameters["humidity"] = GoString
    /\ ~vResult.Valid
    /\ "humidity" \in Words(vResult.Error)

\* C6: a numeric color_temp is valid exactly when 2700 <= v <= 6500 and a numeric
\* humidity exactly when 0 <= v <= 100, the endpoints included.
C6_ColorTempHumidityRange ==
    /\ CalledWithNumber("set_color_temp") =>
          (vResult.Valid <=>
              (5400 <= PassedHalves("set_color_temp") /\ PassedHalves("set_color_temp") <= 13000))
    /\ CalledWithNumber("set_humidity") =>
          (vResult.Valid <=>
              (0 <= PassedHalves("set_humidity") /\ PassedHalves("set_humidity") <= 200))

C6_Witness ==
    /\ CalledWithNumber("set_color_temp")
    /\ PassedHalves("set_color_temp") = 5400
    /\ vResult.Valid

-----------------------------------------------------------------------------
(* Claims about ExecuteActionOnDevice, checked under SpecDevice *)

Executed == pc = "returned" /\ op.name = "ExecuteActionOnDevice"

StepsNamed(name) == {i \in 1..Len(trace) : trace[i].step = name}

\* the device was resolved: from the cache, or by a point lookup that answered
Resolved == \A i \in StepsNamed("GetEntity") : trace[i].answer = "ok"

\* C1: when ValidateAction marks the action invalid, ExecuteActionOnDevice returns
\* an error and calls no service of the gateway, whatever the device id.
C1_InvalidActionNeverDispatched ==
    (Executed /\ ~ValidateAction(op.action).Valid) =>
        /\ ret # NoError
        /\ StepsNamed("CallService") = {}

C1_Witness ==
    /\ Executed
    /\ op.deviceID = "light.bedroom"
    /\ op.action = DeviceAction("set_brightness", FALSE, MapOf("brightness", Float64(600)))
    /\ Resolved
    /\ ret.msg = <<"action", "validation", "failed", ":", "brightness", "cannot", "exceed", "255">>
    /\ StepsNamed("CallService") = {}

\* C7: the steps come in the order resolve, validate, map, invoke.  An id that
\* cannot be resolved ends the operation with an error before any validation or
\* service call; a service is called only after the validation has passed and the
\* mapping has given a non-empty domain and service.
C7_ExecutionOrder ==
    Executed =>
        /\ ~Resolved =>
              /\ ret # NoError
              /\ StepsNamed("ValidateAction") = {}
              /\ StepsNamed("mapActionToService") = {}
              /\ StepsNamed("CallService") = {}
        /\ \A g \in StepsNamed("GetEntity"), v \in StepsNamed("ValidateAction") : g < v
        /\ \A v \in StepsNamed("ValidateAction"), m \in StepsNamed("mapActionToService") : v < m
        /\ \A m \in StepsNamed("mapActionToService"), c \in StepsNamed("CallService") : m < c
        /\ \A c \in StepsNamed("CallService") :
              /\ StepsNamed("ValidateAction") # {}
              /\ StepsNamed("mapActionToService") # {}
              /\ ValidateAction(op.action).Valid
              /\ trace[c].domain # ""
              /\ trace[c].service # ""

C7_Witness ==
    /\ Executed
    /\ op.deviceID = "nonexistent.device"
    /\ op.action = DeviceAction("turn_on", FALSE, EmptyMap)
    /\ ~Resolved
    /\ ret.msg = <<"device", "not", "found", ":", "nonexistent.device">>
    /\ Len(trace) = 1

\* the table of (device type, action name) pairs that have a service
Supported(deviceType, name) ==
    \/ deviceType = "light" /\ name \in {"turn_on", "turn_off", "toggle", "set_brightness", "set_color"}
    \/ deviceType = "switch" /\ name \in {"turn_on", "turn_off", "toggle"}
    \/ deviceType = "climate" /\ name \in {"set_temperature", "set_hvac_mode"}
    \/ deviceType = "cover" /\ name \in {"open", "close", "stop", "set_position"}
    \/ deviceType = "fan" /\ name \in {"turn_on", "turn_off", "toggle", "set_speed"}
    \/ deviceType = "media_player" /\ name \in {"play", "pause", "stop", "volume_set"}

\* C8: a validated action that the device's type has no service for (turn_on on a
\* sensor, open on a light) ends in an unsupported-action error and no service call.
C8_UnsupportedActionNotDispatched ==
    (/\ Executed
     /\ Resolved
     /\ ValidateAction(op.action).Valid
     /\ ~Supported(HAEntities[op.deviceID], op.action.Action))
    => /\ ret.msg = <<"unsupported", "action", op.action.Action, "for", "device", "type",
                      HAEntities[op.deviceID]>>
       /\ StepsNamed("CallService") = {}

C8_Witness ==
    /\ Executed
    /\ op.deviceID = "light.bedroom"
    /\ op.action.Action = "open"
    /\ ret.msg = <<"unsupported", "action", "open", "for", "device", "type", "light">>
    /\ StepsNamed("CallService") = {}

\* C9: one ExecuteActionOnDevice calls a service at most once; when that call
\* fails, the operation returns an error wrapping the gateway's failure.
C9_OneAttemptFailureWrapped ==
    Executed =>
        /\ Cardinality(StepsNamed("CallService")) <= 1
        /\ \A c \in StepsNamed("CallService") :
              IF trace[c].answer = "ok"
              THEN ret = NoError
              ELSE /\ ret.msg = <<"failed", "to", "execute", "action">>
                   /\ ret.cause = <<trace[c].answer>>

C9_Witness ==
    /\ Executed
    /\ Len(trace) = 3
    /\ trace[3].step = "CallService"
    /\ trace[3].answer = "service call failed with status"
    /\ ret.cause = <<"service call failed with status">>

-----------------------------------------------------------------------------
(* Claims about the chat pipeline, checked under SpecChat *)

Chatted == pc = "returned" /\ op.name = "HandleChat"

\* C10: "turn on the bedroom lights" sent with no conversation id (empty history),
\* answered 200 with the interpreter's single action turn_on, ends in exactly one
\* service call: light.turn_on on light.bedroom.
C10_TurnOnBedroomLightsCallsGateway ==
    (/\ Chatted
     /\ chat.message = MsgTurnOnBedroomLights
     /\ chat.conversationID = NilUUID
     /\ chat.status = 200
     /\ chat.actions = <<TurnOnAction>>)
    => /\ Cardinality(StepsNamed("CallService")) = 1
       /\ \A c \in StepsNamed("CallService") :
             /\ trace[c].domain = "light"
             /\ trace[c].service = "turn_on"
             /\ trace[c].entityID = "light.bedroom"

-----------------------------------------------------------------------------
(* Claims about the device registry, checked under SpecRegistry *)

\* goroutine t takes the step that begins a call of `name`
Begins(t, name) == frames[t].pc = "idle" /\ frames'[t].op = name

\* goroutine t takes a step of its call that moves it from position `from` to `to`
Moves(t, name, from, to) ==
    frames[t].op = name /\ frames[t].pc = from /\ frames'[t].pc = to

\* the gateway calls of a GetAllDevices read: none unless it found the cache stale,
\* and then the one list call of its refresh
ReadCalls(f) ==
    f.op = "GetAllDevices" =>
        /\ ~f.stale => f.pc = "returned" /\ f.calls = <<>>
        /\ f.stale => f.calls = (IF f.pc = "refresh" THEN <<>> ELSE <<"GetEntities">>)

\* C11, as stated: a GetAllDevices read made less than 30 seconds after the last
\* successful refresh makes no gateway call, and one made 30 seconds or more after it
\* makes exactly one list call.
C11_ReadRefreshesFrom30Seconds ==
    [][\A t \in Threads :
          /\ (Begins(t, "GetAllDevices") /\ lastUpdate # ZeroTime) =>
                /\ Since(lastUpdate, now) < 30 => ~frames'[t].stale
                /\ Since(lastUpdate, now) >= 30 => frames'[t].stale
          /\ ReadCalls(frames'[t])]_vars

\* C11, amended: a GetAllDevices read made 30 seconds or less after the last successful
\* refresh makes no gateway call, and one made more than 30 seconds after it makes
\* exactly one list call.
C11_ReadRefreshesAfter30Seconds ==
    [][\A t \in Threads :
          /\ (Begins(t, "GetAllDevices") /\ lastUpdate # ZeroTime) =>
                /\ Since(lastUpdate, now) <= 30 => ~frames'[t].stale
                /\ Since(lastUpdate, now) > 30 => frames'[t].stale
          /\ ReadCalls(frames'[t])]_vars

\* a read more than 30 seconds after the last successful refresh has made its one list
\* call (which failed, so that the refresh it is measured from is still the last)
C11_Witness ==
    \E t \in Threads :
        /\ frames[t].op = "GetAllDevices" /\ frames[t].pc = "returned"
        /\ frames[t].stale /\ frames[t].failed
        /\ frames[t].calls = <<"GetEntities">>
        /\ lastUpdate # ZeroTime /\ Since(lastUpdate, now) > 30

\* a failed refresh leaves the cache and its time stamp as they are
FailedRefreshKeepsCache(t) ==
    (frames'[t] # frames[t] /\ frames'[t].failed
        /\ frames'[t].op \in {"GetAllDevices", "RefreshDevices"}) =>
            deviceCache' = deviceCache /\ lastUpdate' = lastUpdate

\* what a stale read whose refresh failed gives its caller
FailedReadAnswer(t) ==
    /\ Moves(t, "GetAllDevices", "afterError", "returned") =>
          Values(deviceCache) = {} /\ frames'[t].err # NoError /\ frames'[t].result = {}
    /\ Moves(t, "GetAllDevices", "afterError", "rlock") =>
          Values(deviceCache) # {} /\ frames'[t].err = NoError
    /\ (Moves(t, "GetAllDevices", "rlock", "returned") /\ frames[t].failed) =>
          /\ Values(deviceCache) # {}
          /\ frames'[t].err = NoError
          /\ frames'[t].result = Values(deviceCache)

\* C12, as stated: a failed refresh, triggered by a stale read or requested explicitly,
\* never removes or changes an entry of the cache; its failure reaches the caller as an
\* error only when the cache is empty, and with a non-empty cache the caller gets no error.
C12_FailureSurfacesOnlyWhenCacheEmpty ==
    [][\A t \in Threads :
          /\ FailedRefreshKeepsCache(t)
          /\ FailedReadAnswer(t)
          /\ (Begins(t, "RefreshDevices") /\ frames'[t].failed) =>
                (frames'[t].err # NoError => Values(deviceCache) = {})]_vars

\* C12, amended: a failed refresh, triggered by a stale read or requested explicitly,
\* never removes or changes an entry of the cache; a stale GetAllDevices read returns the
\* failure only when the cache is empty and otherwise the cached devices and no error;
\* an explicit RefreshDevices returns the failure whatever the cache holds.
C12_FailedRefreshKeepsCache ==
    [][\A t \in Threads :
          /\ FailedRefreshKeepsCache(t)
          /\ FailedReadAnswer(t)
          /\ (Begins(t, "RefreshDevices") /\ frames'[t].failed) =>
                frames'[t].pc = "returned" /\ frames'[t].err # NoError]_vars

\* a stale read has come back with the cached devices after its refresh failed
C12_Witness ==
    \E t \in Threads :
        /\ frames[t].op = "GetAllDevices" /\ frames[t].pc = "returned"
        /\ frames[t].failed /\ frames[t].err = NoError
        /\ frames[t].result # {} /\ frames[t].result = Values(deviceCache)

\* C13: GetDevice(id) on a cache miss makes exactly one point lookup; when that succeeds
\* the device is put in the cache under id and returned, and a GetDevice(id) that finds
\* it there makes no gateway call; when it fails the call returns "device not found"
\* and leaves the cache as it is.
C13_MissLooksUpOnceAndHeals ==
    [][\A t \in Threads :
          /\ Begins(t, "GetDevice") =>
                LET id == frames'[t].deviceID
                    cached == id \in RegistryIds /\ deviceCache[id] # NoEntry
                IN  /\ cached => /\ frames'[t].pc = "returned"
                                 /\ frames'[t].calls = <<>>
                                 /\ frames'[t].device = deviceCache[id]
                                 /\ frames'[t].err = NoError
                    /\ ~cached => frames'[t].pc = "fetch" /\ frames'[t].calls = <<>>
          /\ (frames[t].op = "GetDevice" /\ frames[t].pc = "fetch" /\ frames'[t] # frames[t]) =>
                /\ frames'[t].calls = <<"GetEntity">>
                /\ deviceCache' = deviceCache
                /\ frames'[t].pc = "returned" =>
                      /\ Words(frames'[t].err.msg) = {"device", "not", "found", ":",
                                                      frames[t].deviceID}
                      /\ frames'[t].device = NoEntry
          /\ (frames'[t].op = "GetDevice" /\ frames'[t].pc \in {"lock", "locked"}) =>
                frames'[t].calls = <<"GetEntity">> /\ frames'[t].fresh.ID = frames'[t].deviceID
          /\ Moves(t, "GetDevice", "locked", "returned") =>
                /\ frames'[t].calls = <<"GetEntity">>
                /\ frames'[t].err = NoError
                /\ frames'[t].device = frames[t].fresh
                /\ deviceCache'[frames[t].deviceID] = frames'[t].device
                /\ \A id \in RegistryIds \ {frames[t].deviceID} :
                      deviceCache'[id] = deviceCache[id]]_vars

\* a miss has been healed: one point lookup, and the device is in the cache
C13_Witness ==
    \E t \in Threads :
        /\ frames[t].op = "GetDevice" /\ frames[t].pc = "returned"
        /\ frames[t].calls = <<"GetEntity">> /\ frames[t].err = NoError
        /\ deviceCache[frames[t].deviceID] = frames[t].device
        /\ frames[t].device # NoEntry

\* s contains q, ignoring case
ContainsIgnoringCase(s, q) ==
    \E k \in 0..(Len(s) - Len(q)) :
        \A j \in 1..Len(q) : LowerChar(s[k + j]) = LowerChar(q[j])

\* C14: FindDevicesByName and FindDevicesByType make no gateway call and leave the cache
\* and the time of the last refresh as they are, also when the cache is empty or stale;
\* they return exactly the cached devices whose name contains the query ignoring case,
\* respectively whose type is the query.
C14_FindReadsSnapshotOnly ==
    [][\A t \in Threads :
          /\ Begins(t, "FindDevicesByName") =>
                /\ frames'[t].result =
                      {deviceCache[id] : id \in {i \in RegistryIds :
                          /\ deviceCache[i] # NoEntry
                          /\ ContainsIgnoringCase(deviceCache[i].Name, frames'[t].name)}}
                /\ frames'[t].pc = "returned" /\ frames'[t].calls = <<>>
                /\ UNCHANGED <<deviceCache, lastUpdate, devicesMutex>>
          /\ Begins(t, "FindDevicesByType") =>
                /\ frames'[t].result =
                      {deviceCache[id] : id \in {i \in RegistryIds :
                          /\ deviceCache[i] # NoEntry
                          /\ deviceCache[i].Type = frames'[t].deviceType}}
                /\ frames'[t].pc = "returned" /\ frames'[t].calls = <<>>
                /\ UNCHANGED <<deviceCache, lastUpdate, devicesMutex>>]_vars

\* a search by name in another case has found a device in a stale cache
C14_Witness ==
    \E t \in Threads :
        /\ frames[t].op = "FindDevicesByName" /\ frames[t].pc = "returned"
        /\ frames[t].name = <<"L", "I", "G", "H", "T">>
        /\ frames[t].result # {} /\ frames[t].result # Values(deviceCache)
        /\ Stale(Since(lastUpdate, now))

\* goroutine t is inside a call that has not returned
InCall(t) == frames[t].pc \notin {"idle", "returned"}

\* C15: every call of GetAllDevices, GetDevice and RefreshDevices returns, whatever
\* calls came before, also refreshes that failed while the cache held devices: while a
\* call is in progress, some call in progress can take its next step (only calls in
\* progress give locks back, so otherwise none of them ever returns).
C15_NoRegistryCallBlocksForever ==
    \A t \in Threads : InCall(t) => \E u \in Threads : InCall(u) /\ ENABLED ThreadStep(u)

-----------------------------------------------------------------------------
(* Claims about the conversation store, checked under SpecStore *)

\* the call that has just been made is of one of these operations
Called(names) == call.name \in names

\* the id of the call was not in the store when the call was made
UnknownId == call.id \notin Stored(call.before)

\* C16: Get, Update, Delete, AddMessage, UpdateContext and RecentMessages called with an
\* id that is not in the store each return the not-found error, and the store afterwards
\* holds the same conversations with the same contents as before the call.
C16_UnknownIdIsNotFound ==
    (/\ Called({"GetConversation", "UpdateConversation", "DeleteConversation",
                "AddMessage", "UpdateContext", "GetRecentMessages"})
     /\ UnknownId)
    => /\ call.err.msg = <<"conversation", "not", "found", ":", call.id>>
       /\ ~call.panicked
       /\ Stored(conversations) = Stored(call.before)
       /\ conversations = call.before

\* Update was called for an id that is not stored, next to a conversation that is
C16_Witness ==
    /\ Called({"UpdateConversation"})
    /\ call.id = FirstConv
    /\ UnknownId
    /\ Stored(call.before) # {}
    /\ call.err # NoError

\* C17: after AddMessage(id, m) succeeds, Get(id) returns a conversation whose messages
\* are those from before the call followed by m as the last one, and whose updatedAt is
\* not earlier than the time just before the call.
C17_AddMessageAppends ==
    (Called({"AddMessage"}) /\ call.err = NoError)
    => LET got == GetConversation(conversations, call.id)
           previous == call.before[call.id].Messages
       IN  /\ got.err = NoError
           /\ Len(got.conv.Messages) = Len(previous) + 1
           /\ \A i \in 1..Len(previous) : got.conv.Messages[i] = previous[i]
           /\ got.conv.Messages[Len(previous) + 1] = call.message
           /\ got.conv.UpdatedAt >= call.at

\* a message was added behind another one with another timestamp
C17_Witness ==
    /\ Called({"AddMessage"})
    /\ call.err = NoError
    /\ Len(call.before[call.id].Messages) >= 1
    /\ call.before[call.id].Messages[1] # call.message
    /\ conversations[call.id].Messages[Len(conversations[call.id].Messages)] = call.message

\* C18: after any sequence of Create, Update, AddMessage, UpdateContext, Delete and
\* Cleanup calls with any arguments, every stored conversation has updatedAt >= createdAt
\* and its messages in non-decreasing order of timestamp.
C18_ConversationInvariant ==
    \A id \in Stored(conversations) :
        /\ conversations[id].UpdatedAt >= conversations[id].CreatedAt
        /\ \A i, j \in 1..Len(conversations[id].Messages) :
              i < j => conversations[id].Messages[i].Timestamp
                          <= conversations[id].Messages[j].Timestamp

C20_CleanupIsExactAndIdempotent ==
    Called({"CleanupOldConversations"})
    => LET cutoff == call.at - call.maxAge
           old == {id \in Stored(call.before) : call.before[id].UpdatedAt < cutoff}
           again == CleanupOldConversations(conversations, call.maxAge, call.at)
       IN  /\ Stored(conversations) = Stored(call.before) \ old
           /\ \A id \in Stored(conversations) : conversations[id] = call.before[id]
           /\ call.deleted = Cardinality(old)
           /\ again.convs = conversations
           /\ again.deleted = 0

\* one conversation was deleted and one updated exactly at the cutoff was kept
C20_Witness ==
    /\ Called({"CleanupOldConversations"})
    /\ call.deleted = 1
    /\ \E id \in Stored(conversations) : conversations[id].UpdatedAt = call.at - call.maxAge

\* C22: no operation of the conversation store panics, whatever its arguments, a zero or
\* negative limit of RecentMessages included: each call returns a result or an error.
C22_NoStoreCallPanics ==
    call.name # "" => ~call.panicked

-----------------------------------------------------------------------------
(* Claims about the conversation store under concurrent callers, checked      *)
(* under SpecConcurrent                                                        *)

\* how many times m occurs in seq
Occurrences(seq, m) == Cardinality({i \in 1..Len(seq) : seq[i] = m})

\* the messages whose AddMessage call has returned without error
Sent == UNION {{workers[t].added[i] : i \in 1..Len(workers[t].added)} : t \in Threads}

\* the messages of the calls of AddMessage that are in progress
InFlight == {workers[t].message : t \in {u \in Threads : workers[u].op = "AddMessage"}}

\* C21: when AddMessage calls on one conversation run concurrently with each other and
\* with GetConversation calls, every message whose call has returned is in the
\* conversation exactly once, the conversation holds no message that was not added, and
\* once all calls have returned it holds exactly the n messages added.
C21_NoMessageLostOrDuplicated ==
    LET stored == conversations[FirstConv].Messages
    IN  /\ \A m \in Sent : Occurrences(stored, m) = 1
        /\ \A i \in 1..Len(stored) : stored[i] \in Sent \cup InFlight
        /\ (\A t \in Threads : workers[t].pc = "idle") => Len(stored) = Cardinality(Sent)

\* both goroutines have added messages, alternating, with reads in between
C21_Witness ==
    /\ \A t \in Threads : workers[t].pc = "idle" /\ Len(workers[t].added) >= 1
    /\ \E t \in Threads : workers[t].gets >= 1 /\ workers[t].found.Messages # <<>>
    /\ Len(conversations[FirstConv].Messages) >= 3
    /\ conversations[FirstConv].Messages[1].Content # conversations[FirstConv].Messages[3].Content
    /\ conversations[FirstConv].Messages[1].Content[1] =
          conversations[FirstConv].Messages[3].Content[1]

-----------------------------------------------------------------------------
(* Claims about the conversation store with persistence, checked under        *)
(* SpecPersistent                                                              *)

\* C23: when the durable save performed by Update fails, Update still returns success
\* and the conversation in memory is the one handed to Update, with its contents and
\* with updatedAt set at the call: the failure is neither returned nor does it undo
\* the change in memory.
C23_SaveFailureIsSwallowed ==
    (Called({"UpdateConversation"}) /\ call.saved = "failed")
    => /\ call.err = NoError
       /\ GetConversation(conversations, call.id).err = NoError
       /\ GetConversation(conversations, call.id).conv = [call.conv EXCEPT !.UpdatedAt = call.at]
       /\ call.at = now

\* a save has failed for an update that changed the conversation in memory
C23_Witness ==
    /\ Called({"UpdateConversation"})
    /\ call.saved = "failed"
    /\ conversations[call.id] # call.before[call.id]
    /\ conversations[call.id].Messages # <<>>
    /\ durable.conversations[call.id] # [conversations[call.id] EXCEPT !.Messages = <<>>]

\* C24: with a healthy database, a conversation saved by Update and loaded back, by
\* DB.GetConversation or by the preload of a Manager built over the same file, has the
\* same id and the same messages in the same order; and after such a construction every
\* conversation of the file is returned by GetConversation.
C24_SavedConversationLoadsBack ==
    /\ (Called({"UpdateConversation"}) /\ call.saved = "ok")
       => /\ DBGetConversation(durable, call.id) # {}
          /\ \A loaded \in DBGetConversation(durable, call.id) :
                loaded.Messages = conversations[call.id].Messages
          /\ \A convs \in LoadConversationsFromDB(durable) :
                /\ call.id \in Stored(convs)
                /\ convs[call.id].Messages = conversations[call.id].Messages
    /\ (Called({"NewManagerWithDB"}) /\ call.saved = "ok")
       => \A id \in StoreIds :
             durable.conversations[id].exists
             => GetConversation(conversations, id).err = NoError

-----------------------------------------------------------------------------
(* Claims about the backend's state machine *)

\* the goroutines inside generateWithLlamaCpp
Generating == {t \in Threads : callers[t].pc = "generating"}

\* C25: the backend starts Unloaded; it becomes Loaded only through a LoadModel that
\* succeeds and Unloaded only through UnloadModel; while goroutines load, unload and
\* process messages at once, a generation runs only while the backend is Loaded, and a
\* ProcessMessage that finds it Unloaded returns the not-loaded error and no reply
C25_GenerationOnlyWhileLoaded ==
    /\ ~isLoaded
    /\ [](/\ Generating # {} => isLoaded
          /\ \A t \in Threads :
                callers[t].op = "ProcessMessage" /\ callers[t].pc = "returned"
                => IF callers[t].loaded
                   THEN callers[t].err = NoError /\ callers[t].response # <<>>
                   ELSE callers[t].err = ModelNotLoaded /\ callers[t].response = <<>>)
    /\ [][/\ (~isLoaded /\ isLoaded')
             => \E t \in Threads : /\ callers[t].op = "LoadModel"
                                   /\ callers[t].pc = "backend"
                                   /\ callers'[t].err = NoError
          /\ (isLoaded /\ ~isLoaded')
             => \E t \in Threads : /\ callers[t].op = "UnloadModel"
                                   /\ callers[t].pc = "backend"
          /\ \A t \in Threads :
                callers[t].op = "LoadModel" /\ callers[t].pc = "backend"
                /\ callers'[t].pc = "unlock" /\ callers'[t].err # NoError
                => isLoaded' = isLoaded]_vars

\* one goroutine is generating while the other waits to unload the model
C25_Witness ==
    \E t, u \in Threads :
        /\ callers[t].pc = "generating"
        /\ callers[u].op = "UnloadModel"
        /\ callers[u].pc = "lock"

-----------------------------------------------------------------------------
(* Claims about the interpreters of the backend's text, checked under        *)
(* SpecInterpreter                                                           *)

\* a call of either ProcessMessage has returned
Processed == turn.done /\ turn.op \in {"ProcessMessage", "ProcessMessageWithBackend"}

\* C26: ProcessMessage returns an error exactly when the backend is not loaded (not
\* connected) at the call; whatever text a loaded backend answers, malformed JSON, JSON
\* without its fields or prose, ProcessMessage returns no error
C26_ErrorOnlyWhenNotLoaded ==
    Processed => (turn.err # NoError <=> ~turn.loaded)

\* a loaded backend has answered malformed JSON, and the call returned that text
C26_Witness ==
    /\ Processed
    /\ turn.op = "ProcessMessageWithBackend"
    /\ turn.loaded
    /\ turn.text = JsonMalformed
    /\ turn.err = NoError
    /\ turn.response = JsonMalformed

\* C27: when the Service is connected and the generation request fails, ProcessMessage
\* returns no error and the non-empty reply of parseCommand for the message, with the
\* actions of parseCommand
C27_FailedGenerationFallsBack ==
    turn.done /\ turn.op = "ProcessMessage" /\ turn.loaded /\ turn.failed
    => /\ turn.err = NoError
       /\ turn.response # <<>>
       /\ turn.response \in {Reply.LightsOn, Reply.LightsOff, Reply.LightsDim,
                             Reply.TemperatureSet, Reply.TemperatureIs, Reply.Help,
                             Reply.Unsure}
       /\ Len(turn.actions) <= 1

\* the request failed for "Hello", and the reply is the one of the last rule
C27_Witness ==
    /\ turn.done
    /\ turn.op = "ProcessMessage"
    /\ turn.loaded
    /\ turn.failed
    /\ turn.message = MsgHello
    /\ turn.response = Reply.Unsure

\* C28: whenever the backend's text is no JSON object, the interpreter returns at most
\* one action; and when no keyword is in the text, it returns no action and the text
\* itself as the reply (the blanks around it aside)
C28_AtMostOneSynthesizedAction ==
    Processed /\ turn.loaded /\ ~turn.failed /\ NotStructured(turn.text)
    => /\ Len(turn.actions) <= 1
       /\ (turn.op = "ProcessMessageWithBackend"
            \/ extractActionsFromResponse(turn.text) = <<>>)
          => /\ turn.actions = <<>>
             /\ turn.response = TrimSpace(turn.text)

\* C29: for every text that is no JSON and holds both "turn on" and "light", whatever
\* else it holds, the keyword fallback returns exactly one action, named turn_on: on the
\* user's message when the request failed, on the backend's text otherwise
C29_TurnOnLightIsOneAction ==
    /\ (turn.done /\ turn.op = "ProcessMessage" /\ turn.loaded /\ turn.failed
        /\ Contains(turn.message, Kw.turn_on) /\ Contains(turn.message, Kw.light))
       => turn.actions = <<TurnOnAction>>
    /\ (turn.done /\ turn.op = "ProcessMessage" /\ turn.loaded /\ ~turn.failed
        /\ NotStructured(turn.text)
        /\ Contains(turn.text, Kw.turn_on) /\ Contains(turn.text, Kw.light))
       => turn.actions = <<TurnOnAction>>
    /\ (turn.done /\ turn.op = "ProcessMessageWithBackend" /\ turn.loaded
        /\ NotStructured(turn.text)
        /\ Contains(turn.text, Kw.turn_on) /\ Contains(turn.text, Kw.light))
       => Len(turn.actions) = 1

\* C30: a well-formed payload with a reply and actions, parsed inside a code fence with
\* or without a language tag, gives the reply and the actions, names and parameters in
\* their order, that it gives parsed alone
C30_FencedParsesAsUnfenced ==
    turn.done /\ turn.op = "parseResponse"
    => /\ turn.response = turn.plain.response
       /\ turn.actions = turn.plain.actions

\* the payload with two actions was parsed inside a fence tagged json
C30_Witness ==
    /\ turn.done
    /\ turn.op = "parseResponse"
    /\ turn.tag # <<>>
    /\ turn.text = JsonTwoActions
    /\ Len(turn.actions) = 2
    /\ turn.response # <<>>

-----------------------------------------------------------------------------
(* Locks and calls across components                                         *)

\* the goroutines inside a call of the backend made by the Service: LoadModel and
\* UnloadModel of Service.LoadModel and Service.UnloadModel, GenerateResponse of
\* Service.ProcessMessage
InBackendCall == {t \in Threads : callers[t].pc \in {"backend", "generating"}}

\* C31: no component calls another component or an outside collaborator while it
\* holds its own lock; for the interpreter service: while a goroutine is inside a call
\* of the backend, the Service's lock has no reader and no writer
C31_NoServiceLockDuringBackendCall ==
    InBackendCall # {} => serviceMutex = Unlocked

\* the goroutines inside a call of the registry
InRegistryCall == {t \in Threads : frames[t].pc # "idle"}

\* C36: every operation of the registry gives back every lock it took before it
\* returns: while no GetAllDevices, GetDevice, RefreshDevices or search call is in
\* progress, the registry's lock has zero readers and no writer
C36_NoLockOutlivesItsCall ==
    InRegistryCall = {} => devicesMutex = Unlocked

\* the ids the call that has just returned removed from the store: the id of a
\* DeleteConversation that succeeded, the ids CleanupOldConversations deleted
Removed ==
    IF call.name = "DeleteConversation" /\ call.err = NoError THEN {call.id}
    ELSE IF call.name = "CleanupOldConversations"
         THEN Stored(call.before) \ Stored(conversations)
         ELSE {}

\* C38: with persistence, once DeleteConversation(id) has succeeded or
\* CleanupOldConversations has removed id, the conversation stays removed: a store
\* built over the same database does not hold id, and its GetConversation(id) returns
\* not-found
C38_RemovedStaysRemoved ==
    \A id \in Removed :
        \A later \in LoadConversationsFromDB(durable) :
            /\ id \notin Stored(later)
            /\ GetConversation(later, id).err = ConversationNotFound(id)

-----------------------------------------------------------------------------
(* The chat handler and the conversation it was given                        *)

\* the step of HandleChat on a stored conversation whose ProcessMessage returned an
\* error: the handler answers 500 after it has found the conversation
FailedTurn ==
    /\ pc = "idle"
    /\ pc' = "returned"
    /\ op'.name = "HandleChat"
    /\ chat'.status = 500
    /\ chat'.conversationID # NilUUID
    /\ chat'.convID = chat'.conversationID

\* C40: a chat turn whose ProcessMessage returns an error leaves the stored
\* conversation as it was: a later GetConversation does not hold the user message of
\* the failed turn, and UpdatedAt is the same
C40_FailedTurnLeavesConversation ==
    [][FailedTurn
       => LET id == chat'.conversationID
          IN  /\ GetConversation(conversations', id).conv.Messages
                    = GetConversation(conversations, id).conv.Messages
              /\ GetConversation(conversations', id).conv.UpdatedAt
                    = GetConversation(conversations, id).conv.UpdatedAt]_vars

-----------------------------------------------------------------------------
(* The mapping and what reaches the gateway                                  *)

\* a number under one of the four checked keys lies in the range its validator
\* allows (values are counted in halves)
WithinRange(key, v) ==
    IsNumber(v)
    => CASE key = "brightness" -> 2 * MinBrightness <= v.n /\ v.n <= 2 * MaxBrightness
         [] key = "temperature" -> 2 * MinSafeTemp <= v.n /\ v.n <= 2 * MaxSafeTemp
         [] key = "color_temp" -> 2 * MinKelvin <= v.n /\ v.n <= 2 * MaxKelvin
         [] key = "humidity" -> 2 * MinHumidity <= v.n /\ v.n <= 2 * MaxHumidity

\* C35: every service call ExecuteActionOnDevice makes carries range-checked values
\* only: under no action name, turn_on, turn_off, open and close with further
\* parameters included, does the service data hold a brightness outside 0..255, a
\* temperature outside 10..40, a color_temp outside 2700..6500 or a humidity outside
\* 0..100
C35_OnlyRangeCheckedValuesReachGateway ==
    \A c \in StepsNamed("CallService") :
        \A key \in ParamKeys : WithinRange(key, trace[c].data[key])

Mapped == pc = "returned" /\ op.name = "mapActionToService"

\* C34: mapActionToService is a function of device type, action name and parameters
\* that does nothing else: it makes no gateway call and leaves the registry as it
\* was; a domain that is not empty is the device's type; every parameter of the
\* action is in the service data with the same value; set_brightness on a light is
\* the service turn_on with the brightness of the action
C34_MappingOnlyMaps ==
    /\ [](Mapped
          => LET type == HAEntities[op.deviceID]
                 m == trace[1]
             IN  /\ Len(trace) = 1
                 /\ StepsNamed("GetEntity") \cup StepsNamed("CallService") = {}
                 /\ m.domain # "" => m.domain = type
                 /\ \A key \in ParamKeys :
                       HasKey(op.action, key) => m.data[key] = op.action.Parameters[key]
                 /\ type = "light" /\ op.action.Action = "set_brightness"
                    => /\ m.service = "turn_on"
                       /\ m.data["brightness"] = op.action.Parameters["brightness"])
    /\ [][pc = "idle" /\ op'.name = "mapActionToService"
          => devices' = devices]_vars

\* set_brightness with a brightness was mapped for a light while the cache held a device
C34_Witness ==
    /\ Mapped
    /\ HAEntities[op.deviceID] = "light"
    /\ op.action.Action = "set_brightness"
    /\ HasKey(op.action, "brightness")
    /\ trace[1].service = "turn_on"
    /\ trace[1].data["brightness"] = op.action.Parameters["brightness"]
    /\ \E id \in DeviceIds : devices[id] # NoDevice


\* ExecuteActionOnDevice has returned for a device it found
ExecutedOnDevice == Executed /\ StepsNamed("ValidateAction") # {}

\* what ExecuteActionOnDevice returns for a name ValidateAction does not know
UnknownAction(name) ==
    Errorf(<<"action", "validation", "failed", ":", "unknown", "action", ":", name>>)

\* C39: the names the validator knows and the names the mapping knows agree: every
\* device type and action name mapActionToService has a service for (toggle,
\* set_color, set_hvac_mode, stop, set_position, set_speed, play, pause and volume_set
\* among them) can reach the gateway through ExecuteActionOnDevice, so that no such
\* call is turned away for its name whatever its parameters; and every action name
\* ValidateAction accepts has a service for some device type
C39_VocabulariesAgree ==
    ExecutedOnDevice
    => /\ ServiceFor(HAEntities[op.deviceID], op.action.Action) # ""
          => ret # UnknownAction(op.action.Action)
       /\ StepsNamed("mapActionToService") # {}
          => \E deviceType \in DeviceTypes : ServiceFor(deviceType, op.action.Action) # ""

-----------------------------------------------------------------------------
(* The registry's lock around the gateway calls of a stale read               *)

\* the goroutines whose stale GetAllDevices has its list call in flight
ListCallInFlight ==
    {t \in Threads : frames[t].op = "GetAllDevices" /\ frames[t].pc = "refresh"}

\* the goroutines in a stale GetAllDevices whose refresh has not failed, from the
\* RUnlock before the refresh to the RLock that precedes the copy
Refreshing ==
    {t \in Threads : /\ frames[t].op = "GetAllDevices"
                     /\ frames[t].stale
                     /\ ~frames[t].failed
                     /\ frames[t].pc \in {"refresh", "lock", "locked", "rlock"}}

\* C32: in a refresh started by a stale GetAllDevices the calling goroutine holds no
\* lock of the registry while the list call of the gateway is in flight: the read lock
\* was given back first, the write lock is held only for the swap of the map, readers
\* are not kept out during the call by this goroutine, and the read lock is taken
\* again only to return the data
C32_NoLockWhileListCallInFlight ==
    /\ [](/\ \A t \in ListCallInFlight :
                /\ frames[t].held = 0
                /\ devicesMutex.writer # t
                /\ (\A u \in Threads \ {t} : frames[u].pc # "locked")
                   => CanRLock(devicesMutex)
          /\ \A t \in Refreshing : frames[t].held = 0
          /\ \A t \in Threads : devicesMutex.writer = t => frames[t].pc = "locked")
    /\ [][\A t \in Refreshing :
             /\ frames[t].pc = "locked" /\ frames'[t].pc # "locked"
                => /\ deviceCache' = ReplaceAll(deviceCache, frames[t].fetched)
                   /\ devicesMutex'.writer = NoThread
             /\ frames[t].pc = "rlock" /\ frames'[t].pc # "rlock"
                => /\ frames'[t].pc = "returned"
                   /\ frames'[t].result = Values(deviceCache)
                   /\ frames'[t].held = 0]_vars

\* a stale read has its list call in flight, holding nothing, after the cache was
\* filled, while the other goroutine has finished a read of the cache
C32_Witness ==
    \E t \in ListCallInFlight :
        /\ frames[t].held = 0
        /\ devicesMutex = Unlocked
        /\ deviceCache # EmptyCache
        /\ \E u \in Threads \ {t} :
              /\ frames[u].op = "FindDevicesByType"
              /\ frames[u].pc = "returned"


-----------------------------------------------------------------------------
(* The order of fetches and the order of stores                              *)

\* C37: when a refresh runs beside another refresh or a point lookup, data fetched
\* earlier never overwrites data fetched later, so that once all have completed the
\* cache is the answer of the list call issued last, with only the point lookups
\* fetched after it: no call stores an answer after an answer fetched later than its
\* own was stored
C37_EarlierNeverOverwritesLater ==
    [][\A t \in Threads :
          frames[t].pc = "locked" /\ frames'[t].pc # "locked" => ~frames[t].overtaken]_vars


-----------------------------------------------------------------------------
(* The stored conversation and the handlers that hold it                     *)

\* no goroutine is in a chat turn
NoTurnInProgress == \A t \in Threads : workers[t].pc = "idle"

\* C33: the messages, the context and UpdatedAt of a stored conversation are read and
\* changed only inside operations of the store that hold its lock, also by the chat
\* handler that works on what GetConversation or CreateConversation returned, so that
\* two chat turns on one conversation at the same time lose none of their messages:
\* the stored conversation changes only while a goroutine holds the write lock, and
\* once the turns have ended it holds every message of every turn answered with 200
C33_ConversationChangesOnlyUnderLock ==
    /\ [](NoTurnInProgress
          => \A m \in Sent : Occurrences(conversations[FirstConv].Messages, m) = 1)
    /\ [][conversations' # conversations => storeMutex.writer # NoThread]_vars

=============================================================================
